---- MODULE Spec2Model ----
(***************************************************************************)
(* Verification model of the ABS analysis backend:                         *)
(*   backend/app/utils/finance_utils.py      (business-day helpers)        *)
(*   backend/app/utils/cash_flow_utils.py    (cash-flow waterfall)         *)
(*   backend/app/services/calculation_service.py   (tranche calculator)    *)
(*   backend/app/services/optimization_service.py  (optimizer evaluations) *)
(*                                                                         *)
(* Dates are day numbers; day 0 is a Monday, so weekday(d) = d % 7 with    *)
(* 0 = Monday ... 5 = Saturday, 6 = Sunday, as datetime.weekday().         *)
(* Money is an integer amount.  Rates are integer percents.  Growth and    *)
(* discount factors are fixed-point numbers with Scale units per 1.0.      *)
(* Tranche-indexed lists are functions over 0..n-1 (the code's indices);   *)
(* record lists are sequences.                                             *)
(***************************************************************************)
EXTENDS Integers, Sequences, FiniteSets, TLC

VARIABLES
    installment_date,    \* SpecDate: argument of calculate_reinvestment_date
    reinvest_result,     \* SpecDate: its return value (NaT before the call)
    df,                  \* the data frame handed to the waterfall
    start_date,
    all_maturity_dates,
    all_reinvest_rates,
    tranch_cash_flows,   \* the buckets of assign_cash_flows_to_tranches
    first_pass_flows,    \* the buckets as they were when the row loop ended
    pc,                  \* position inside the function or run being executed
    idx,                 \* row loop position (1-based position in df)
    i,                   \* loop variable of the third pass / of the tranche pass
    df_store,            \* SpecC: the uploaded data set, shared by every run
    df_calc,             \* SpecC: the working copy of a run (df_calc / df_temp)
    runs,                \* SpecC: runs started so far
    request,             \* SpecC: parameters of the run and of its evaluation
    all_maturity_days,
    all_base_rates,
    all_nominal,
    results,             \* SpecC: per-tranche results of the sequential pass
    buffer,              \* SpecC: the buffer carried to the next tranche
    outcome,             \* SpecC: what the evaluation returned
    pos,                 \* position inside the calibrator / the searches
    strategy,            \* SpecCal: distribution strategy of the candidate
    maturities,          \* SpecCal: Class A maturities of the candidate
    min_class_b_percent,
    remaining_nominal,
    a_nominals,          \* the Class A nominal vector of the candidate
    unadjusted_nominals, \* the vector as the distribution produced it
    evaluate_behaviour,  \* what evaluate_coupon_rate returns or throws, call by call
    iteration,           \* calibrator: loop variable
    current_adjustment,
    adjustment_direction,
    best_diff,
    best_nominals,
    success,
    baseline_diff,       \* |baseline coupon rate - target| (Inf before the baseline)
    evaluations,         \* adjusted evaluations made by the calibrator so far
    stopped_by,          \* why the calibrator left its loop
    best_evaluation,     \* coupon rate and minimum buffer of the evaluation that set best_nominals
    search_settings,     \* SpecS: settings of the classic search and what evaluations may give
    last_cash_flow_day,
    num_a_tranches,
    maturity_combinations, \* the combinations that pass the gap check
    combo_count,         \* how many of them are processed (after sampling)
    combo_idx,
    strategy_idx,
    class_b_maturity,    \* SpecS: the Class B maturity of the combination being processed
    best_results_by_strategy,
    best_coupon_rate_diff_by_strategy,
    best_weighted_principal_by_strategy,
    lexicographic_best,  \* per strategy, the best of the valid candidates processed, by the lexicographic rule
    valid_seen,          \* a processed candidate met the buffer requirement
    search_result,       \* what perform_optimization returned or raised
    genetic_settings,    \* SpecG: maturity_range, population_size, num_generations
    population,          \* the maturity vectors of the individuals of the population
    population_count,    \* len(population)
    new_population,
    new_count,           \* len(new_population)
    generation,
    crossover_attempts,
    individual,          \* the individual most recently created or produced, with its origin
    current_step,        \* SpecP: the fields of the progress tracker
    total_steps,
    current_phase,
    status_message,      \* the line of the call that set the message
    progress,
    run_settings,        \* SpecP: the method and the sizes of the request
    site,                \* where the search thread (or the router) is in its run
    search_state,        \* loop variables of the running search
    pending,             \* the update call the search thread is inside, with its stage
    search_outcome,      \* what the search function returned or raised
    poll_stage,          \* how many fields the get_info call of the poller has read
    snapshot             \* the fields get_info has read so far

vars == <<installment_date, reinvest_result, df, start_date, all_maturity_dates,
          all_reinvest_rates, tranch_cash_flows, first_pass_flows, pc, idx, i,
          df_store, df_calc, runs, request, all_maturity_days, all_base_rates,
          all_nominal, results, buffer, outcome, pos, strategy, maturities,
          min_class_b_percent, remaining_nominal, a_nominals, unadjusted_nominals,
          evaluate_behaviour, iteration, current_adjustment, adjustment_direction,
          best_diff, best_nominals, success, baseline_diff, evaluations, stopped_by,
          best_evaluation,
          search_settings, last_cash_flow_day, num_a_tranches, maturity_combinations,
          combo_count, combo_idx, strategy_idx, class_b_maturity,
          best_results_by_strategy, best_coupon_rate_diff_by_strategy,
          best_weighted_principal_by_strategy, lexicographic_best, valid_seen,
          search_result, genetic_settings, population, population_count, new_population,
          new_count, generation, crossover_attempts, individual,
          current_step, total_steps, current_phase, status_message, progress,
          run_settings, site, search_state, pending, search_outcome, poll_stage,
          snapshot>>

(***************************************************************************)
(* Bounds of the model                                                     *)
(***************************************************************************)
MaxDay == 62          \* SpecDate: installment dates 0..MaxDay
MaxDate == 7          \* SpecW: installment dates 0..MaxDate
MaxRecords == 2       \* SpecW: rows in the data frame
MaxTranches == 3      \* SpecW: tranches (Class A + Class B)
MaxMaturity == 8      \* SpecW: latest maturity date
MaxClassA == 2        \* SpecC: Class A tranches of a structure
MaxRuns == 2          \* SpecC: runs on the same data set
Scale == 10000        \* fixed-point resolution of growth/discount factors

(***************************************************************************)
(* Sentinels                                                               *)
(***************************************************************************)
NaT == -1             \* a null installment date (pd.isnull)
None == -1            \* Python None in the integer field moved_from

Max(a, b) == IF a >= b THEN a ELSE b
Min(a, b) == IF a <= b THEN a ELSE b
NumTranches(lst) == Cardinality(DOMAIN lst)
EmptyList == [k \in {} |-> 0]

(***************************************************************************)
(* finance_utils.py                                                        *)
(***************************************************************************)
weekday(d) == d % 7

\* the weekend test with > in place of >=
IsWeekendSundayOnly(d) == weekday(d) > 5
\* date.weekday() >= 5  (5=Saturday, 6=Sunday)
IsWeekend(d) == weekday(d) >= 5

\* while date.weekday() >= 5: date += 1
RECURSIVE get_next_business_day(_)
get_next_business_day(d) ==
    IF IsWeekend(d) THEN get_next_business_day(d + 1) ELSE d

calculate_reinvestment_date(d) ==
    LET rolled == IF IsWeekend(d) THEN get_next_business_day(d) ELSE d
    IN  get_next_business_day(rolled + 1)

\* (1 + r_compound)^(days/365) with r_compound = simple_to_compound_annual(rate)/100
\* = ((1 + rate/36500)^365)^(days/365) = (1 + rate/36500)^days, in fixed point.
DailyGrowth(rate) == Scale + (rate * Scale) \div 36500

RECURSIVE GrowthPow(_, _)
GrowthPow(rate, days) ==
    IF days <= 0 THEN Scale
    ELSE (GrowthPow(rate, days - 1) * DailyGrowth(rate)) \div Scale

\* cf * ((1 + r_compound)**(days_diff/365) - 1) if days_diff > 0 else 0.0
ReinvestReturn(cf, rate, days_diff) ==
    IF days_diff > 0 THEN (cf * (GrowthPow(rate, days_diff) - Scale)) \div Scale
    ELSE 0

(***************************************************************************)
(* cash_flow_utils.py : assign_cash_flows_to_tranches                      *)
(***************************************************************************)
NoNote == ""
LastNote == "Reinvestment date >= all"

Entry(row, reinvest_date, r_return, note) ==
    [id |-> row.id,
     date |-> row.installment_date,
     cash_flow |-> row.cash_flow,
     principal_amount |-> row.principal_amount,
     interest_amount |-> row.interest_amount,
     reinvest_date |-> reinvest_date,
     reinvestment_return |-> r_return,
     moved_from |-> None,
     note |-> note]

AppendTo(buckets, k, e) == [buckets EXCEPT ![k] = Append(@, e)]

\* the first pass deciding on the installment date alone
RECURSIVE FirstPassIndexInstOnly(_, _, _, _)
FirstPassIndexInstOnly(k, inst_date, reinvest_date, mats) ==
    IF k >= NumTranches(mats) THEN None
    ELSE IF inst_date < mats[k] THEN k
    ELSE FirstPassIndexInstOnly(k + 1, inst_date, reinvest_date, mats)

\* for i in range(n): if inst_date < mats[i]: if reinvest_date < mats[i]: ... break
RECURSIVE FirstPassIndex(_, _, _, _)
FirstPassIndex(k, inst_date, reinvest_date, mats) ==
    IF k >= NumTranches(mats) THEN None
    ELSE IF inst_date < mats[k] /\ reinvest_date < mats[k] THEN k
    ELSE FirstPassIndex(k + 1, inst_date, reinvest_date, mats)

\* the reinvestment-date test with <= in place of <
RECURSIVE ReinvestIndexInclusive(_, _, _)
ReinvestIndexInclusive(k, reinvest_date, mats) ==
    IF k >= NumTranches(mats) THEN None
    ELSE IF reinvest_date <= mats[k] THEN k
    ELSE ReinvestIndexInclusive(k + 1, reinvest_date, mats)

\* for j in range(k, n): if reinvest_date < mats[j]: ... break
RECURSIVE ReinvestIndex(_, _, _)
ReinvestIndex(k, reinvest_date, mats) ==
    IF k >= NumTranches(mats) THEN None
    ELSE IF reinvest_date < mats[k] THEN k
    ELSE ReinvestIndex(k + 1, reinvest_date, mats)

\* the body of the row loop (first pass, second pass, last-tranche fallback)
AssignRow(buckets, row, start, mats, rates) ==
    IF row.installment_date = NaT \/ row.installment_date < start THEN buckets
    ELSE
      LET inst_date == row.installment_date
          reinvest_date == calculate_reinvestment_date(inst_date)
          n == NumTranches(mats)
          k1 == FirstPassIndex(0, inst_date, reinvest_date, mats)
          k2 == ReinvestIndex(0, reinvest_date, mats)
          put(k, note) ==
              AppendTo(buckets, k,
                  Entry(row, reinvest_date,
                        ReinvestReturn(row.cash_flow, rates[k], mats[k] - reinvest_date),
                        note))
      IN  IF k1 # None THEN put(k1, NoNote)
          ELSE IF n > 0
               THEN IF k2 # None THEN put(k2, NoNote)
                    ELSE put(n - 1, LastNote)
               ELSE buckets

\* the body of "for cf_info in tranch_cash_flows[i]" of the third pass:
\* st = [buckets, final_cf]; a moved entry is appended to a later bucket,
\* a kept one to final_cf.
\* the third-pass test with the comparison reversed
ThirdPassMovesReversed(reinvest_date, maturity) == reinvest_date < maturity
\* if cf_info['reinvest_date'] >= all_maturity_dates[i]
ThirdPassMoves(reinvest_date, maturity) == reinvest_date >= maturity

ThirdPassEntry(st, cf_info, k, mats, rates) ==
    IF ThirdPassMoves(cf_info.reinvest_date, mats[k])
    THEN LET n == NumTranches(mats)
             j0 == ReinvestIndex(k + 1, cf_info.reinvest_date, mats)
             j == IF j0 # None THEN j0 ELSE n - 1
             new_cf == [cf_info EXCEPT
                          !.reinvestment_return =
                              ReinvestReturn(cf_info.cash_flow, rates[j],
                                             mats[j] - cf_info.reinvest_date),
                          !.moved_from = k]
         IN  [buckets |-> AppendTo(st.buckets, j, new_cf), final_cf |-> st.final_cf]
    ELSE [buckets |-> st.buckets, final_cf |-> Append(st.final_cf, cf_info)]

RECURSIVE ThirdPassLoop(_, _, _, _, _, _)
ThirdPassLoop(st, source, p, k, mats, rates) ==
    IF p > Len(source) THEN st
    ELSE ThirdPassLoop(ThirdPassEntry(st, source[p], k, mats, rates),
                       source, p + 1, k, mats, rates)

\* the third pass without "else: final_cf.append(cf_info)"
ThirdPassTrancheDropsKept(buckets, k, mats, rates) ==
    LET st == ThirdPassLoop([buckets |-> buckets, final_cf |-> <<>>],
                            buckets[k], 1, k, mats, rates)
    IN  [st.buckets EXCEPT ![k] = <<>>]

\* one iteration of "for i in range(num_tranches-1)", ending with
\* tranch_cash_flows[i] = final_cf
ThirdPassTranche(buckets, k, mats, rates) ==
    LET st == ThirdPassLoop([buckets |-> buckets, final_cf |-> <<>>],
                            buckets[k], 1, k, mats, rates)
    IN  [st.buckets EXCEPT ![k] = st.final_cf]

\* the whole function, as the evaluations call it
RECURSIVE RowLoop(_, _, _, _, _, _)
RowLoop(buckets, frame, p, start, mats, rates) ==
    IF p > Len(frame) THEN buckets
    ELSE RowLoop(AssignRow(buckets, frame[p], start, mats, rates),
                 frame, p + 1, start, mats, rates)

RECURSIVE ThirdPass(_, _, _, _)
ThirdPass(buckets, k, mats, rates) ==
    IF k >= NumTranches(mats) - 1 THEN buckets
    ELSE ThirdPass(ThirdPassTranche(buckets, k, mats, rates), k + 1, mats, rates)

assign_cash_flows_to_tranches(frame, start, mats, rates) ==
    ThirdPass(RowLoop([k \in DOMAIN mats |-> <<>>], frame, 1, start, mats, rates),
              0, mats, rates)

(***************************************************************************)
(* SpecDate: calculate_reinvestment_date on every installment date         *)
(***************************************************************************)
wvars == <<df, start_date, all_maturity_dates, all_reinvest_rates,
           tranch_cash_flows, first_pass_flows, pc, idx, i>>
dvars == <<installment_date, reinvest_result>>
cvars == <<df_store, df_calc, runs, request, all_maturity_days, all_base_rates,
           all_nominal, results, buffer, outcome>>

calvars == <<strategy, maturities, min_class_b_percent, remaining_nominal, a_nominals,
             unadjusted_nominals, evaluate_behaviour, iteration, current_adjustment,
             adjustment_direction, best_diff, best_nominals, success, baseline_diff,
             evaluations, stopped_by, best_evaluation>>
svars == <<search_settings, last_cash_flow_day, num_a_tranches, maturity_combinations,
           combo_count, combo_idx, strategy_idx, class_b_maturity,
           best_results_by_strategy, best_coupon_rate_diff_by_strategy,
           best_weighted_principal_by_strategy, lexicographic_best, valid_seen,
           search_result>>
NoSettings == [method |-> "none"]
NoOutcome == [returned |-> FALSE]
NoResult == [finished |-> FALSE]

NoEvaluation == [throws |-> FALSE, rate |-> -1, min_buffer |-> -1]

gvars == <<genetic_settings, population, population_count, new_population, new_count,
           generation, crossover_attempts, individual>>
pvars == <<current_step, total_steps, current_phase, status_message, progress,
           run_settings, site, search_state, pending, search_outcome, poll_stage,
           snapshot>>
ovars == <<pos, calvars, svars, gvars, pvars>>

NoCall == [stage |-> "idle"]
NoSnapshot == [progress |-> -1, phase |-> "none", message |-> -1, step |-> -1, total_steps |-> -1]
NoState == [context |-> "none"]

IdleP ==
    /\ current_step = 0
    /\ total_steps = 0
    /\ current_phase = "none"
    /\ status_message = 0
    /\ progress = 0
    /\ run_settings = NoSettings
    /\ site = "none"
    /\ search_state = NoState
    /\ pending = NoCall
    /\ search_outcome = NoOutcome
    /\ poll_stage = 0
    /\ snapshot = NoSnapshot

NoIndividual == [origin |-> "none"]

IdleG ==
    /\ genetic_settings = NoSettings
    /\ population = {}
    /\ population_count = 0
    /\ new_population = {}
    /\ new_count = 0
    /\ generation = 0
    /\ crossover_attempts = 0
    /\ individual = NoIndividual


IdleS ==
    /\ search_settings = NoSettings
    /\ last_cash_flow_day = 0
    /\ num_a_tranches = 0
    /\ maturity_combinations = {}
    /\ combo_count = 0
    /\ combo_idx = 0
    /\ strategy_idx = 0
    /\ class_b_maturity = 0
    /\ best_results_by_strategy = EmptyList
    /\ best_coupon_rate_diff_by_strategy = EmptyList
    /\ best_weighted_principal_by_strategy = EmptyList
    /\ lexicographic_best = EmptyList
    /\ valid_seen = FALSE
    /\ search_result = NoResult

IdleCalRest ==
    /\ min_class_b_percent = 0
    /\ remaining_nominal = 0
    /\ a_nominals = EmptyList
    /\ unadjusted_nominals = EmptyList
    /\ evaluate_behaviour = <<>>
    /\ iteration = 0
    /\ current_adjustment = 0
    /\ adjustment_direction = 0
    /\ best_diff = 0
    /\ best_nominals = EmptyList
    /\ success = FALSE
    /\ baseline_diff = 0
    /\ evaluations = 0
    /\ stopped_by = "none"
    /\ best_evaluation = NoEvaluation

IdleCal ==
    /\ strategy = "none"
    /\ maturities = EmptyList
    /\ IdleCalRest

IdleO ==
    /\ pos = "idle"
    /\ IdleCal
    /\ IdleS
    /\ IdleG
    /\ IdleP

NoRequest == [path |-> "none"]

IdleC ==
    /\ df_store = <<>>
    /\ df_calc = <<>>
    /\ runs = 0
    /\ request = NoRequest
    /\ all_maturity_days = EmptyList
    /\ all_base_rates = EmptyList
    /\ all_nominal = EmptyList
    /\ results = <<>>
    /\ buffer = 0
    /\ outcome = NoOutcome

IdleW ==
    /\ df = <<>>
    /\ start_date = 0
    /\ all_maturity_dates = EmptyList
    /\ all_reinvest_rates = EmptyList
    /\ tranch_cash_flows = EmptyList
    /\ first_pass_flows = EmptyList
    /\ pc = "idle"
    /\ idx = 0
    /\ i = 0

IdleDate ==
    /\ installment_date = 0
    /\ reinvest_result = NaT

InitDate ==
    /\ IdleO
    /\ installment_date \in 0..MaxDay
    /\ reinvest_result = NaT
    /\ IdleW
    /\ IdleC

CallReinvestmentDate ==
    /\ reinvest_result = NaT
    /\ reinvest_result' = calculate_reinvestment_date(installment_date)
    /\ UNCHANGED <<ovars, installment_date, wvars, cvars>>

NextDate == CallReinvestmentDate

SpecDate == InitDate /\ [][NextDate]_vars

(***************************************************************************)
(* SpecW: assign_cash_flows_to_tranches, one loop iteration per step       *)
(***************************************************************************)
DateChoices == (0..MaxDate) \cup {NaT}
MaturityChoices == {d \in 1..MaxMaturity : d % 4 = 0}
StartChoices == {0, 2}

\* reinvestment rates of the example structure, by tranche position
ExampleRate(k) == 40 - 5 * k

Row(n, d) ==
    [id |-> n, installment_date |-> d, cash_flow |-> 1000,
     original_cash_flow |-> 1000, principal_amount |-> 900, interest_amount |-> 100]

Frames(maxlen) ==
    UNION {{[p \in 1..len |-> Row(p, ds[p])] : ds \in [1..len -> DateChoices]}
           : len \in 0..maxlen}

MaturityLists(maxlen) ==
    UNION {[0..(len - 1) -> MaturityChoices] : len \in 0..maxlen}

InitW ==
    /\ IdleO
    /\ IdleDate
    /\ IdleC
    /\ df \in Frames(MaxRecords)
    /\ start_date \in StartChoices
    /\ all_maturity_dates \in MaturityLists(MaxTranches)
    /\ all_reinvest_rates = [k \in DOMAIN all_maturity_dates |-> ExampleRate(k)]
    /\ tranch_cash_flows = [k \in DOMAIN all_maturity_dates |-> <<>>]
    /\ first_pass_flows = [k \in DOMAIN all_maturity_dates |-> <<>>]
    /\ pc = "rows"
    /\ idx = 1
    /\ i = 0

\* for idx, row in df.iterrows(): ...
RowStep ==
    /\ pc = "rows"
    /\ idx <= Len(df)
    /\ tranch_cash_flows' = AssignRow(tranch_cash_flows, df[idx], start_date,
                                      all_maturity_dates, all_reinvest_rates)
    /\ idx' = idx + 1
    /\ UNCHANGED <<ovars, dvars, cvars, df, start_date, all_maturity_dates, all_reinvest_rates,
                   first_pass_flows, pc, i>>

RowsDone ==
    /\ pc = "rows"
    /\ idx > Len(df)
    /\ pc' = "third"
    /\ i' = 0
    /\ first_pass_flows' = tranch_cash_flows
    /\ UNCHANGED <<ovars, dvars, cvars, df, start_date, all_maturity_dates, all_reinvest_rates,
                   tranch_cash_flows, idx>>

\* for i in range(num_tranches-1): ...
ThirdPassStep ==
    /\ pc = "third"
    /\ i < NumTranches(all_maturity_dates) - 1
    /\ tranch_cash_flows' = ThirdPassTranche(tranch_cash_flows, i,
                                             all_maturity_dates, all_reinvest_rates)
    /\ i' = i + 1
    /\ UNCHANGED <<ovars, dvars, cvars, df, start_date, all_maturity_dates, all_reinvest_rates,
                   first_pass_flows, pc, idx>>

ReturnFlows ==
    /\ pc = "third"
    /\ i >= NumTranches(all_maturity_dates) - 1
    /\ pc' = "done"
    /\ UNCHANGED <<ovars, dvars, cvars, df, start_date, all_maturity_dates, all_reinvest_rates,
                   tranch_cash_flows, first_pass_flows, idx, i>>

NextW == RowStep \/ RowsDone \/ ThirdPassStep \/ ReturnFlows

SpecW == InitW /\ [][NextW]_vars

(***************************************************************************)
(* Properties of the waterfall (SpecW) and of the date helper (SpecDate)   *)
(***************************************************************************)
Eligible(row) == row.installment_date # NaT /\ row.installment_date >= start_date

\* where the record of row p sits in a bucket list: pairs <<tranche, position>>
Places(buckets, p) ==
    UNION {{<<k, q>> : q \in {r \in 1..Len(buckets[k]) : buckets[k][r].id = p}}
           : k \in DOMAIN buckets}

TrancheOf(buckets, p) == CHOOSE k \in DOMAIN buckets : \E q \in 1..Len(buckets[k]) : buckets[k][q].id = p
EntryOf(buckets, p) ==
    LET k == TrancheOf(buckets, p)
    IN  buckets[k][CHOOSE q \in 1..Len(buckets[k]) : buckets[k][q].id = p]

LeastOf(S) == CHOOSE k \in S : \A m \in S : k <= m

\* C1: with at least one tranche, once the row loop has run (and at every
\* later point, the repair pass included) every row with a non-null date
\* not before the start date is in exactly one bucket, with its own amounts,
\* and every other row is in no bucket.
C1_PartitionComplete ==
    (pc \in {"third", "done"} /\ NumTranches(all_maturity_dates) >= 1) =>
        \A p \in 1..Len(df) :
            IF Eligible(df[p])
            THEN /\ Cardinality(Places(tranch_cash_flows, p)) = 1
                 /\ EntryOf(tranch_cash_flows, p).cash_flow = df[p].cash_flow
                 /\ EntryOf(tranch_cash_flows, p).date = df[p].installment_date
            ELSE Places(tranch_cash_flows, p) = {}

C1_Witness ==
    /\ pc = "done"
    /\ NumTranches(all_maturity_dates) >= 2
    /\ \E p \in 1..Len(df) : Eligible(df[p]) /\ TrancheOf(tranch_cash_flows, p) = 0
    /\ \E p \in 1..Len(df) : ~Eligible(df[p])

\* the priority order of the initial assignment, stated on sets of tranches
InitialTarget(inst_date, mats) ==
    LET rd == calculate_reinvestment_date(inst_date)
        both == {k \in DOMAIN mats : mats[k] > inst_date /\ mats[k] > rd}
        reinvOnly == {k \in DOMAIN mats : mats[k] > rd}
    IN  IF both # {} THEN [tranche |-> LeastOf(both), rule |-> 1]
        ELSE IF reinvOnly # {} THEN [tranche |-> LeastOf(reinvOnly), rule |-> 2]
        ELSE [tranche |-> NumTranches(mats) - 1, rule |-> 3]

\* C2: when the row loop ends, every eligible row sits in the tranche the
\* priority order (1) both dates before maturity, (2) reinvestment date
\* before maturity, (3) last tranche gives, and carries the note
\* 'Reinvestment date >= all' exactly in case (3).
C2_InitialAssignment ==
    (pc \in {"third", "done"} /\ NumTranches(all_maturity_dates) >= 1) =>
        \A p \in 1..Len(df) :
            Eligible(df[p]) =>
                LET t == InitialTarget(df[p].installment_date, all_maturity_dates)
                IN  /\ Places(first_pass_flows, p) # {}
                    /\ \A pl \in Places(first_pass_flows, p) : pl[1] = t.tranche
                    /\ (EntryOf(first_pass_flows, p).note = LastNote) <=> (t.rule = 3)
                    /\ EntryOf(first_pass_flows, p).note \in {NoNote, LastNote}
                    /\ EntryOf(first_pass_flows, p).reinvest_date =
                           calculate_reinvestment_date(df[p].installment_date)

C2_Witness ==
    /\ pc = "third"
    /\ i = 0
    /\ NumTranches(all_maturity_dates) = 3
    /\ \E p \in 1..Len(df) :
          /\ Eligible(df[p])
          /\ EntryOf(first_pass_flows, p).note = LastNote
          /\ TrancheOf(first_pass_flows, p) = 2
    /\ \E p \in 1..Len(df) :
          /\ Eligible(df[p])
          /\ EntryOf(first_pass_flows, p).note = NoNote
          /\ TrancheOf(first_pass_flows, p) = 1

\* the first tranche after s whose maturity date is after rd, else the last
FirstLater(s, rd, mats) ==
    LET later == {j \in DOMAIN mats : j > s /\ rd < mats[j]}
    IN  IF later # {} THEN LeastOf(later) ELSE NumTranches(mats) - 1

\* C3: on return, every record in a bucket other than the last has its
\* reinvestment date strictly before that bucket's maturity date; a record
\* whose bucket differs from the one the row loop gave it (a record the
\* repair pass moved) sits in the first later bucket whose maturity date is
\* after its reinvestment date (the last bucket when there is none), is no
\* longer in its source bucket and carries moved_from = the source index;
\* a record that was not moved carries moved_from = None.
C3_RepairResult ==
    (pc = "done" /\ NumTranches(all_maturity_dates) >= 1) =>
        /\ \A k \in DOMAIN tranch_cash_flows :
              k < NumTranches(all_maturity_dates) - 1 =>
                  \A q \in 1..Len(tranch_cash_flows[k]) :
                      tranch_cash_flows[k][q].reinvest_date < all_maturity_dates[k]
        /\ \A p \in 1..Len(df) :
              Eligible(df[p]) =>
                  LET s == TrancheOf(first_pass_flows, p)
                      e == EntryOf(tranch_cash_flows, p)
                  IN  \A pl \in Places(tranch_cash_flows, p) :
                          IF pl[1] = s
                          THEN e.moved_from = None
                          ELSE /\ pl[1] = FirstLater(s, e.reinvest_date, all_maturity_dates)
                               /\ e.moved_from = s
                               /\ \A q \in 1..Len(tranch_cash_flows[s]) :
                                      tranch_cash_flows[s][q].id # p

C3_Witness ==
    /\ pc = "done"
    /\ NumTranches(all_maturity_dates) = 3
    /\ i = 2
    /\ Len(tranch_cash_flows[0]) >= 1
    /\ Len(tranch_cash_flows[1]) >= 1

\* roll: a Saturday or Sunday moves to the next Monday, other days stay
Roll(d) == IF weekday(d) = 5 THEN d + 2 ELSE IF weekday(d) = 6 THEN d + 1 ELSE d

FirstWeekdayAfter(x) ==
    CHOOSE y \in (x + 1)..(x + 7) :
        /\ weekday(y) \in 0..4
        /\ \A z \in (x + 1)..(y - 1) : weekday(z) \in {5, 6}

\* C4: calculate_reinvestment_date(d) is the first Monday-to-Friday day
\* strictly after roll(d); it is never a Saturday or Sunday and lies 1 to 3
\* calendar days after d.
C4_ReinvestmentDate ==
    reinvest_result # NaT =>
        /\ reinvest_result = FirstWeekdayAfter(Roll(installment_date))
        /\ weekday(reinvest_result) \notin {5, 6}
        /\ reinvest_result - installment_date \in 1..3

C4_Witness ==
    /\ reinvest_result # NaT
    /\ weekday(installment_date) = 4
    /\ reinvest_result = installment_date + 3

\* the single-rule reference: the first tranche, in index order, whose
\* maturity date is strictly after the reinvestment date, else the last
ReferenceTarget(rd, mats) ==
    LET after == {k \in DOMAIN mats : rd < mats[k]}
    IN  IF after # {} THEN [tranche |-> LeastOf(after), note |-> NoNote]
        ELSE [tranche |-> NumTranches(mats) - 1, note |-> LastNote]

ReferenceEntry(row, mats, rates) ==
    LET rd == calculate_reinvestment_date(row.installment_date)
        t == ReferenceTarget(rd, mats)
    IN  [id |-> row.id, date |-> row.installment_date, cash_flow |-> row.cash_flow,
         principal_amount |-> row.principal_amount, interest_amount |-> row.interest_amount,
         reinvest_date |-> rd,
         reinvestment_return |-> ReinvestReturn(row.cash_flow, rates[t.tranche], mats[t.tranche] - rd),
         moved_from |-> None, note |-> t.note]

RECURSIVE ReferenceBucket(_, _, _, _, _)
ReferenceBucket(frame, p, k, mats, rates) ==
    IF p > Len(frame) THEN <<>>
    ELSE LET rest == ReferenceBucket(frame, p + 1, k, mats, rates)
         IN  IF Eligible(frame[p]) /\ ReferenceTarget(calculate_reinvestment_date(frame[p].installment_date), mats).tranche = k
             THEN <<ReferenceEntry(frame[p], mats, rates)>> \o rest
             ELSE rest

ReferenceAssignment(frame, mats, rates) == [k \in DOMAIN mats |-> ReferenceBucket(frame, 1, k, mats, rates)]

\* C28: for every input (maturity dates sorted or not) the returned buckets
\* equal the single-rule reference; the second rule never selects a tranche,
\* the repair pass moves no record and moved_from is None on every record.
C28_SingleRuleReference ==
    /\ pc = "done" =>
          /\ tranch_cash_flows = ReferenceAssignment(df, all_maturity_dates, all_reinvest_rates)
          /\ tranch_cash_flows = first_pass_flows
          /\ \A k \in DOMAIN tranch_cash_flows : \A q \in 1..Len(tranch_cash_flows[k]) :
                tranch_cash_flows[k][q].moved_from = None
    /\ \A p \in 1..Len(df) :
          Eligible(df[p]) =>
              LET rd == calculate_reinvestment_date(df[p].installment_date)
              IN  /\ rd > df[p].installment_date
                  /\ FirstPassIndex(0, df[p].installment_date, rd, all_maturity_dates) = None
                         => ReinvestIndex(0, rd, all_maturity_dates) = None

C28_Witness ==
    /\ pc = "done"
    /\ \E k \in DOMAIN all_maturity_dates : k > 0 /\ all_maturity_dates[k - 1] > all_maturity_dates[k]
    /\ \E p \in 1..Len(df) : Eligible(df[p]) /\ EntryOf(tranch_cash_flows, p).note = LastNote
    /\ \E p \in 1..Len(df) :
          /\ Eligible(df[p])
          /\ \E k \in DOMAIN all_maturity_dates :
                /\ k < TrancheOf(tranch_cash_flows, p)
                /\ df[p].installment_date < all_maturity_dates[k]

(***************************************************************************)
(* cash_flow_utils.py : calculate_totals                                   *)
(***************************************************************************)
RECURSIVE TotalsLoop(_, _, _, _, _)
TotalsLoop(cash_flows, p, maturity_date, reinvest_rate, acc) ==
    IF p > Len(cash_flows) THEN acc
    ELSE LET c == cash_flows[p]
             ret == ReinvestReturn(c.cash_flow, reinvest_rate,
                                   maturity_date - c.reinvest_date)
         IN  TotalsLoop(cash_flows, p + 1, maturity_date, reinvest_rate,
                 [total_cash_flow |-> acc.total_cash_flow + c.cash_flow,
                  total_reinvest |-> acc.total_reinvest + ret,
                  total_principal |-> acc.total_principal + c.principal_amount,
                  total_interest |-> acc.total_interest + c.interest_amount])

calculate_totals(cash_flows, maturity_date, reinvest_rate) ==
    TotalsLoop(cash_flows, 1, maturity_date, reinvest_rate,
               [total_cash_flow |-> 0, total_reinvest |-> 0,
                total_principal |-> 0, total_interest |-> 0])

(***************************************************************************)
(* calculation_service.py / optimization_service.py :                      *)
(* the prologue of a run and the sequential tranche pass.  The pass is     *)
(* written four times in the code: perform_calculation,                    *)
(* evaluate_coupon_rate, evaluate_params and inline in                     *)
(* perform_optimization; "path" names the copy.                            *)
(***************************************************************************)
TargetDate == 6       \* pd.Timestamp('2025-02-16'), a Sunday

\* Python round(num/den) for den > 0: nearest integer, ties to even
PyRound(num, den) ==
    LET q == num \div den
        r == num % den
    IN  IF 2 * r < den THEN q
        ELSE IF 2 * r > den THEN q + 1
        ELSE IF q % 2 = 0 THEN q ELSE q + 1

\* load_excel_data: cash_flow = principal + interest, original_cash_flow = copy
LoadedRow(n, d, principal, interest) ==
    [id |-> n, installment_date |-> d,
     principal_amount |-> principal, interest_amount |-> interest,
     cash_flow |-> principal + interest,
     original_cash_flow |-> principal + interest]

\* the prologue working on the shared frame itself, without the reset
PrepareWorkingInPlace(shared, ops_expenses) ==
    LET targets == {p \in 1..Len(shared) : shared[p].installment_date = TargetDate}
        working == IF targets = {} THEN shared
                   ELSE [shared EXCEPT ![LeastOf(targets)].cash_flow =
                                           Max(0, @ - ops_expenses)]
    IN  [shared |-> working, working |-> working]

\* df_calc = df.copy(); df_calc['cash_flow'] = df_calc['original_cash_flow'].copy();
\* the first row dated 2025-02-16 gets max(0, cash_flow - ops_expenses)
PrepareWorking(shared, ops_expenses) ==
    LET reset == [p \in 1..Len(shared) |->
                     [shared[p] EXCEPT !.cash_flow = shared[p].original_cash_flow]]
        targets == {p \in 1..Len(reset) : reset[p].installment_date = TargetDate}
        working == IF targets = {} THEN reset
                   ELSE [reset EXCEPT ![LeastOf(targets)].cash_flow =
                                          Max(0, @ - ops_expenses)]
    IN  [shared |-> shared, working |-> working]

\* rates of the example structure, by tranche position (percent)
BaseRateA(k) == <<45, 44, 43, 42>>[k + 1]
ReinvestRateA(k) == <<40, 37, 32, 30>>[k + 1]
ClassBReinvestRate == 25

RECURSIVE SumList(_, _)
SumList(lst, k) == IF k >= NumTranches(lst) THEN 0 ELSE lst[k] + SumList(lst, k + 1)

Concat(lst, x) ==
    [k \in 0..NumTranches(lst) |-> IF k < NumTranches(lst) THEN lst[k] ELSE x]

\* percent_b = 10.17811704; round(total_a * percent_b / (100 - percent_b) / 1000) * 1000
CalcClassBNominal(total_a) == PyRound(total_a * 101781, 898219 * 1000) * 1000

\* [max(1000, round(n / 1000) * 1000) for n in nominals]
RoundNominals(nominals) ==
    [k \in DOMAIN nominals |-> Max(1000, PyRound(nominals[k], 1000) * 1000)]

\* the Class A nominals the pass works with
PassNominalsA(req) ==
    IF req.path = "evaluate_params" THEN RoundNominals(req.a_nominals)
    ELSE req.a_nominals

\* the Class B nominal the pass works with
PassNominalB(req) ==
    LET total_a == SumList(PassNominalsA(req), 0)
    IN  CASE req.path = "perform_calculation" -> CalcClassBNominal(total_a)
          [] req.path = "evaluate_params" ->
                 (total_a * req.min_class_b_percent) \div (100 - req.min_class_b_percent)
          [] OTHER -> req.class_b_nominal

\* 1 / (1 + (total_rate/100 * maturity_days/365)) if maturity_days > 0 else 1
DiscountFactor(total_rate, maturity_days) ==
    IF maturity_days > 0
    THEN (Scale * 36500) \div (36500 + total_rate * maturity_days)
    ELSE Scale

\* Class A: principal = nominal * discount_factor, interest = nominal - principal,
\* coupon_payment = 0, total_payment = nominal
ClassAPaymentPaysPrincipal(nominal_pmt, total_rate, maturity_days, total_available) ==
    LET df_ == DiscountFactor(total_rate, maturity_days)
        principal == (nominal_pmt * df_) \div Scale
    IN  [discount_factor |-> df_, principal |-> principal,
         interest |-> nominal_pmt - principal, coupon_payment |-> 0,
         total_payment |-> principal]

ClassAPayment(nominal_pmt, total_rate, maturity_days, total_available) ==
    LET df_ == DiscountFactor(total_rate, maturity_days)
        principal == (nominal_pmt * df_) \div Scale
    IN  [discount_factor |-> df_, principal |-> principal,
         interest |-> nominal_pmt - principal, coupon_payment |-> 0,
         total_payment |-> nominal_pmt]

\* Class B: principal = nominal, coupon_payment = max(0, total_available - principal),
\* total_payment = principal + coupon_payment
ClassBPaymentNoCoupon(nominal_pmt, total_rate, maturity_days, total_available) ==
    [discount_factor |-> Scale, principal |-> nominal_pmt, interest |-> 0,
     coupon_payment |-> 0, total_payment |-> nominal_pmt]

ClassBPaymentNoFloor(nominal_pmt, total_rate, maturity_days, total_available) ==
    [discount_factor |-> Scale, principal |-> nominal_pmt, interest |-> 0,
     coupon_payment |-> total_available - nominal_pmt,
     total_payment |-> nominal_pmt + (total_available - nominal_pmt)]

ClassBPayment(nominal_pmt, total_rate, maturity_days, total_available) ==
    LET coupon_payment == Max(0, total_available - nominal_pmt)
    IN  [discount_factor |-> Scale, principal |-> nominal_pmt, interest |-> 0,
         coupon_payment |-> coupon_payment,
         total_payment |-> nominal_pmt + coupon_payment]

\* new_buffer = max(0, total_available - total_payment)
NewBufferNoFloor(total_available, total_payment) == total_available - total_payment
NewBuffer(total_available, total_payment) == Max(0, total_available - total_payment)

\* buffer_cf_ratio, in hundredths of a percent:
\*   perform_calculation:  (new_buffer / nominal_pmt * 100) if nominal_pmt != 0 else 0
\*   the optimizer copies: (new_buffer / nominal_pmt * 100) if nominal_pmt > 0 else 0
BufferRatio(path, new_buffer, nominal_pmt) ==
    LET guarded == IF path = "perform_calculation" THEN nominal_pmt # 0
                   ELSE nominal_pmt > 0
    IN  IF guarded THEN (new_buffer * 10000) \div nominal_pmt ELSE 0

\* buffer reinvestment between two maturities
BufferReinvestment(k, buf, maturity_days, reinvest_rate) ==
    IF k > 0 /\ buf > 0
    THEN LET dd == maturity_days[k] - maturity_days[k - 1]
         IN  IF dd > 0 THEN (buf * (GrowthPow(reinvest_rate, dd) - Scale)) \div Scale
             ELSE 0
    ELSE 0

\* one iteration of "for i in range(len(all_maturity_days))"
TrancheEconomics(path, k, num_a, buf, buckets, mat_days, mat_dates, base_rates, reinvest_rates, nominals) ==
    LET is_class_a == k < num_a
        totals == calculate_totals(buckets[k], mat_dates[k], reinvest_rates[k])
        buffer_reinv == BufferReinvestment(k, buf, mat_days, reinvest_rates[k])
        total_available == totals.total_cash_flow + totals.total_reinvest
                           + buf + buffer_reinv
        total_rate == base_rates[k]
        nominal_pmt == nominals[k]
        pay == IF is_class_a
               THEN ClassAPayment(nominal_pmt, total_rate, mat_days[k], total_available)
               ELSE ClassBPayment(nominal_pmt, total_rate, mat_days[k], total_available)
        new_buffer == NewBuffer(total_available, pay.total_payment)
    IN  [is_class_a |-> is_class_a,
         nominal |-> nominal_pmt,
         maturity_days |-> mat_days[k],
         buffer_in |-> buf,
         cash_flow_total |-> totals.total_cash_flow,
         reinvestment_return |-> totals.total_reinvest,
         buffer_reinv |-> buffer_reinv,
         total_available |-> total_available,
         discount_factor |-> pay.discount_factor,
         principal |-> pay.principal,
         interest |-> pay.interest,
         coupon_payment |-> pay.coupon_payment,
         total_payment |-> pay.total_payment,
         buffer_out |-> new_buffer,
         buffer_cf_ratio |-> BufferRatio(path, new_buffer, nominal_pmt)]

\* the annualized Class B coupon rate (percent):
\*   (coupon / principal) * (365 / maturity_days) * 100
\* perform_calculation guards it with principal > 0 and maturity_days > 0,
\* evaluate_coupon_rate with principal > 0 and class_b_maturity > 0,
\* evaluate_params and perform_optimization with principal > 0 only
ClassBCouponRate(path, coupon, principal, maturity_days) ==
    LET guarded == /\ principal > 0
                   /\ (path \in {"perform_calculation", "evaluate_coupon_rate"}
                          => maturity_days > 0)
    IN  IF ~guarded THEN [rate |-> 0, raised |-> ""]
        ELSE IF maturity_days = 0 THEN [rate |-> 0, raised |-> "ZeroDivisionError"]
        ELSE [rate |-> (coupon * 36500) \div (principal * maturity_days), raised |-> ""]

RECURSIVE MinRatioA(_, _)
MinRatioA(res, p) ==
    IF p > Len(res) \/ ~res[p].is_class_a THEN 1000000000
    ELSE Min(res[p].buffer_cf_ratio, MinRatioA(res, p + 1))

\* min(r['buffer_cf_ratio'] for r in class_a_results) if class_a_results else 0.0
MinBufferActual(res) ==
    IF Len(res) = 0 \/ ~res[1].is_class_a THEN 0 ELSE MinRatioA(res, 1)

\* what the evaluation hands back once the loop has ended; an exception
\* raised inside evaluate_params or inside the inline evaluation of
\* perform_optimization is caught there and the candidate counts as invalid
EvaluationOutcome(req, res) ==
    LET b == res[Len(res)]
        cr == ClassBCouponRate(req.path, b.coupon_payment, b.principal, b.maturity_days)
        mb == MinBufferActual(res)
    IN  [returned |-> TRUE,
         raised |-> cr.raised,
         class_b_coupon_rate |-> cr.rate,
         min_buffer_actual |-> mb,
         is_valid |-> cr.raised = "" /\ mb >= req.min_buffer * 100]

(***************************************************************************)
(* SpecC: runs on a shared data set; every run prepares its working copy   *)
(* and evaluates one structure through one copy of the tranche pass        *)
(***************************************************************************)
RecordKinds ==
    {[date |-> 1, principal |-> 11000, interest |-> 1000],
     [date |-> TargetDate, principal |-> 1800, interest |-> 200]}

\* data sets in date order (several rows may share a date)
DataSets(maxlen) ==
    UNION {{[p \in 1..len |-> LoadedRow(p, ks[p].date, ks[p].principal, ks[p].interest)]
              : ks \in {x \in [1..len -> RecordKinds] :
                          \A p \in 1..(len - 1) : x[p].date <= x[p + 1].date}}
           : len \in 1..maxlen}

MaturityDayChoices == {0, 4, 8}
CalcMaturityDayChoices == {-4, 8}
ClassBMaturityChoices == {-4, 0, 12}
CalcNominalChoices == {-1000, 0, 6000}
SearchNominalChoices == {1000, 6000}
GeneticNominalChoices == {400, 6500}
ClassBNominalChoices == {-1000, 0, 1000}
ClassBPercentChoices == {-10, 0, 10}
OpsChoices == {500, 5000}
MinBufferChoice == 5

Lists(S, maxlen) == UNION {[0..(len - 1) -> S] : len \in 1..maxlen}
Increasing(lst) == \A k \in DOMAIN lst : k > 0 => lst[k - 1] < lst[k]

Paths == {"perform_calculation", "evaluate_coupon_rate", "perform_optimization",
          "evaluate_params"}

\* the run that holds each copy of the pass
RunOf(path) ==
    CASE path = "perform_calculation" -> "perform_calculation"
      [] path = "evaluate_params" -> "perform_genetic_optimization"
      [] OTHER -> "perform_optimization"

Request(path, ops, mats, noms, bmat, bnom, bpct) ==
    [path |-> path, ops_expenses |-> ops, min_buffer |-> MinBufferChoice,
     a_maturity_days |-> mats, a_nominals |-> noms, class_b_maturity |-> bmat,
     class_b_nominal |-> bnom, min_class_b_percent |-> bpct]

Requests ==
    {Request("perform_calculation", ops, mats, noms, bmat, 0, 0) :
        ops \in OpsChoices,
        mats \in Lists(CalcMaturityDayChoices, MaxClassA),
        noms \in Lists(CalcNominalChoices, MaxClassA),
        bmat \in ClassBMaturityChoices}
    \cup
    {Request(path, ops, mats, noms, bmat, bnom, 0) :
        path \in {"evaluate_coupon_rate", "perform_optimization"},
        ops \in OpsChoices,
        mats \in {m \in Lists(MaturityDayChoices, MaxClassA) : Increasing(m)},
        noms \in Lists(SearchNominalChoices, MaxClassA),
        bmat \in ClassBMaturityChoices,
        bnom \in ClassBNominalChoices}
    \cup
    {Request("evaluate_params", ops, mats, noms, bmat, 0, bpct) :
        ops \in OpsChoices,
        mats \in {m \in Lists(MaturityDayChoices, MaxClassA) : Increasing(m)},
        noms \in Lists(GeneticNominalChoices, MaxClassA),
        bmat \in ClassBMaturityChoices,
        bpct \in ClassBPercentChoices}

ValidRequests == {r \in Requests : DOMAIN r.a_maturity_days = DOMAIN r.a_nominals}

InitC ==
    /\ IdleO
    /\ IdleDate
    /\ df = <<>>
    /\ start_date = 0
    /\ all_maturity_dates = EmptyList
    /\ all_reinvest_rates = EmptyList
    /\ tranch_cash_flows = EmptyList
    /\ first_pass_flows = EmptyList
    /\ pc = "idle"
    /\ idx = 0
    /\ i = 0
    /\ df_store \in DataSets(MaxRecords)
    /\ df_calc = <<>>
    /\ runs = 0
    /\ request = NoRequest
    /\ all_maturity_days = EmptyList
    /\ all_base_rates = EmptyList
    /\ all_nominal = EmptyList
    /\ results = <<>>
    /\ buffer = 0
    /\ outcome = NoOutcome

\* the run starts: working copy, reset from original_cash_flow, deduction
BeginRun ==
    /\ pc = "idle"
    /\ runs < MaxRuns
    /\ \E req \in ValidRequests :
          LET prep == PrepareWorking(df_store, req.ops_expenses)
          IN  /\ request' = req
              /\ df_store' = prep.shared
              /\ df_calc' = prep.working
    /\ runs' = runs + 1
    /\ pc' = "prepared"
    /\ UNCHANGED <<ovars, dvars, df, start_date, all_maturity_dates, all_reinvest_rates,
                   tranch_cash_flows, first_pass_flows, idx, i, all_maturity_days,
                   all_base_rates, all_nominal, results, buffer, outcome>>

\* the parameter lists are combined and the cash flows distributed
SetUpPass ==
    /\ pc = "prepared"
    /\ LET num_a == NumTranches(request.a_maturity_days)
           days == Concat(request.a_maturity_days, request.class_b_maturity)
           dates == [k \in DOMAIN days |-> start_date + days[k]]
           b_base == IF request.path = "perform_calculation" THEN 0
                     ELSE BaseRateA(num_a - 1)
           rates == [k \in DOMAIN days |->
                        IF k < num_a THEN ReinvestRateA(k) ELSE ClassBReinvestRate]
       IN  /\ all_maturity_days' = days
           /\ all_maturity_dates' = dates
           /\ all_base_rates' = [k \in DOMAIN days |->
                                    IF k < num_a THEN BaseRateA(k) ELSE b_base]
           /\ all_reinvest_rates' = rates
           /\ all_nominal' = Concat(PassNominalsA(request), PassNominalB(request))
           /\ tranch_cash_flows' =
                  assign_cash_flows_to_tranches(df_calc, start_date, dates, rates)
    /\ results' = <<>>
    /\ buffer' = 0
    /\ i' = 0
    /\ pc' = "tranches"
    /\ UNCHANGED <<ovars, dvars, df, start_date, first_pass_flows, idx, df_store, df_calc,
                   runs, request, outcome>>

TrancheStep ==
    /\ pc = "tranches"
    /\ i < NumTranches(all_maturity_days)
    /\ LET r == TrancheEconomics(request.path, i,
                                 NumTranches(request.a_maturity_days), buffer,
                                 tranch_cash_flows, all_maturity_days,
                                 all_maturity_dates, all_base_rates,
                                 all_reinvest_rates, all_nominal)
       IN  /\ results' = Append(results, r)
           /\ buffer' = r.buffer_out
    /\ i' = i + 1
    /\ UNCHANGED <<ovars, dvars, df, start_date, all_maturity_dates, all_reinvest_rates,
                   tranch_cash_flows, first_pass_flows, pc, idx, df_store, df_calc,
                   runs, request, all_maturity_days, all_base_rates, all_nominal,
                   outcome>>

FinishPass ==
    /\ pc = "tranches"
    /\ i >= NumTranches(all_maturity_days)
    /\ outcome' = EvaluationOutcome(request, results)
    /\ pc' = "evaluated"
    /\ UNCHANGED <<ovars, dvars, df, start_date, all_maturity_dates, all_reinvest_rates,
                   tranch_cash_flows, first_pass_flows, idx, i, df_store, df_calc,
                   runs, request, all_maturity_days, all_base_rates, all_nominal,
                   results, buffer>>

\* the run returns; its locals are gone, the shared data set stays
EndRun ==
    /\ pc = "evaluated"
    /\ pc' = "idle"
    /\ df_calc' = <<>>
    /\ request' = NoRequest
    /\ all_maturity_days' = EmptyList
    /\ all_maturity_dates' = EmptyList
    /\ all_base_rates' = EmptyList
    /\ all_reinvest_rates' = EmptyList
    /\ all_nominal' = EmptyList
    /\ tranch_cash_flows' = EmptyList
    /\ results' = <<>>
    /\ buffer' = 0
    /\ i' = 0
    /\ outcome' = NoOutcome
    /\ UNCHANGED <<ovars, dvars, df, start_date, first_pass_flows, idx, df_store, runs>>

NextC == BeginRun \/ SetUpPass \/ TrancheStep \/ FinishPass \/ EndRun

SpecC == InitC /\ [][NextC]_vars

(***************************************************************************)
(* Properties of the sequential tranche pass and of the runs (SpecC)       *)
(***************************************************************************)
ClassAResults == {p \in 1..Len(results) : results[p].is_class_a}
ClassBResults == {p \in 1..Len(results) : ~results[p].is_class_a}

\* C5: in the sequential pass of every copy, the first tranche's buffer-in
\* is 0, every buffer-out is >= 0, and the buffer-out of a tranche is the
\* buffer-in of the next one (and the buffer carried on after the last
\* computed tranche).
C5_BufferChain ==
    /\ Len(results) >= 1 => results[1].buffer_in = 0
    /\ \A p \in 1..Len(results) :
          /\ results[p].buffer_out >= 0
          /\ p < Len(results) => results[p + 1].buffer_in = results[p].buffer_out
          /\ p = Len(results) => buffer = results[p].buffer_out

C5_Witness ==
    /\ pc = "evaluated"
    /\ Len(results) = 3
    /\ results[1].total_available < results[1].total_payment
    /\ results[1].buffer_out = 0
    /\ results[2].buffer_out > 0
    /\ results[3].buffer_in > 0

\* C6: for every Class A tranche, whatever funds are available to it:
\* total payment = nominal, coupon payment = 0, principal = nominal x
\* discount factor, the factor being 1/(1 + rate/100 x days/365) and 1 when
\* maturity days <= 0, and principal + interest = nominal.
C6_ClassAPayment ==
    \A p \in ClassAResults :
        LET r == results[p]
            rate == all_base_rates[p - 1]
            den == 36500 + rate * r.maturity_days
        IN  /\ r.total_payment = r.nominal
            /\ r.coupon_payment = 0
            /\ r.principal = (r.nominal * r.discount_factor) \div Scale
            /\ r.maturity_days <= 0 => (r.discount_factor = Scale /\ r.principal = r.nominal)
            /\ r.maturity_days > 0 =>
                  /\ r.discount_factor * den <= Scale * 36500
                  /\ Scale * 36500 < (r.discount_factor + 1) * den
            /\ r.principal + r.interest = r.nominal

C6_Witness ==
    /\ pc = "evaluated"
    /\ request.path = "perform_calculation"
    /\ Len(results) = 3
    /\ results[1].maturity_days < 0
    /\ results[1].nominal = 6000
    /\ results[1].total_available < results[1].nominal
    /\ results[1].principal = 6000
    /\ results[2].maturity_days > 0
    /\ results[2].nominal = 6000
    /\ results[2].total_available > results[2].nominal
    /\ results[2].principal < 6000

\* C7: for the Class B tranche, principal = nominal, coupon =
\* max(0, total available - principal) >= 0, total payment = principal +
\* coupon, with total available = cash-flow total + reinvestment total +
\* buffer-in + buffer-reinvestment.
C7_ClassBPayment ==
    \A p \in ClassBResults :
        LET r == results[p]
        IN  /\ p = NumTranches(all_nominal)
            /\ r.principal = r.nominal
            /\ r.nominal = all_nominal[p - 1]
            /\ r.total_available = r.cash_flow_total + r.reinvestment_return
                                   + r.buffer_in + r.buffer_reinv
            /\ r.coupon_payment = Max(0, r.total_available - r.principal)
            /\ r.coupon_payment >= 0
            /\ r.total_payment = r.principal + r.coupon_payment

C7_Witness ==
    /\ pc = "evaluated"
    /\ \E p \in ClassBResults :
          /\ results[p].nominal > 0
          /\ results[p].buffer_in > 0
          /\ results[p].buffer_reinv > 0
          /\ results[p].cash_flow_total > 0
          /\ results[p].coupon_payment > 0

\* C8: in every copy of the pass the buffer ratio of a tranche is
\* buffer-out / nominal x 100 (here in hundredths of a percent, rounded
\* down) and is 0 whenever the nominal is zero or negative.
C8_BufferRatio ==
    \A p \in 1..Len(results) :
        LET r == results[p]
        IN  IF r.nominal <= 0 THEN r.buffer_cf_ratio = 0
            ELSE /\ r.buffer_cf_ratio * r.nominal <= r.buffer_out * 10000
                 /\ r.buffer_out * 10000 < (r.buffer_cf_ratio + 1) * r.nominal

\* C9: in evaluate_coupon_rate, evaluate_params and the inline evaluation of
\* perform_optimization, whenever the Class B principal or the Class B
\* maturity in days is zero or negative the annualized Class B coupon rate
\* is 0 and no division error was raised.
C9_CouponRateGuard ==
    (/\ pc = "evaluated"
     /\ request.path \in {"evaluate_coupon_rate", "evaluate_params", "perform_optimization"}
     /\ \/ results[Len(results)].principal <= 0
        \/ results[Len(results)].maturity_days <= 0)
        => (outcome.raised = "" /\ outcome.class_b_coupon_rate = 0)

\* C29: in every copy of the pass the Class B tranche's buffer-out is 0 and
\* its buffer ratio is 0: Class B takes all funds above its principal as
\* coupon, so nothing is left after the last tranche.
C29_ClassBLeavesNoBuffer ==
    /\ \A p \in ClassBResults :
          /\ results[p].buffer_out = 0
          /\ results[p].buffer_cf_ratio = 0
          /\ results[p].total_payment >= results[p].total_available
    /\ (pc = "evaluated" /\ ClassBResults # {}) => buffer = 0

C29_Witness ==
    /\ pc = "evaluated"
    /\ request.path = "perform_calculation"
    /\ \E p \in ClassBResults :
          /\ results[p].principal > 0
          /\ results[p].buffer_in > 0
          /\ results[p].total_available > results[p].principal
          /\ results[p].buffer_out = 0

C29_WitnessShortfall ==
    /\ pc = "evaluated"
    /\ \E p \in ClassBResults :
          /\ results[p].principal > results[p].total_available
          /\ results[p].total_available > 0
          /\ results[p].buffer_out = 0

FirstTargetRow(frame) ==
    LET targets == {p \in 1..Len(frame) : frame[p].installment_date = TargetDate}
    IN  IF targets = {} THEN 0 ELSE LeastOf(targets)

\* C10: every run leaves the shared data set as it was loaded and works on
\* cash flows that are the loaded ones with the expense deducted once, from
\* the first row dated 2025-02-16 only and floored at 0; so the working
\* cash flows of a run do not depend on the runs before it.
C10_WorkingCopy ==
    /\ \A p \in 1..Len(df_store) :
          /\ df_store[p].cash_flow = df_store[p].principal_amount + df_store[p].interest_amount
          /\ df_store[p].original_cash_flow = df_store[p].cash_flow
    /\ pc # "idle" =>
          /\ Len(df_calc) = Len(df_store)
          /\ \A p \in 1..Len(df_store) :
                LET loaded == df_store[p].principal_amount + df_store[p].interest_amount
                IN  /\ df_calc[p].cash_flow =
                          IF p = FirstTargetRow(df_store)
                          THEN Max(0, loaded - request.ops_expenses)
                          ELSE loaded
                    /\ df_calc[p].original_cash_flow = loaded
                    /\ df_calc[p].installment_date = df_store[p].installment_date
          /\ Cardinality({p \in 1..Len(df_store) :
                             df_calc[p].cash_flow # df_store[p].cash_flow}) <= 1

C10_Witness ==
    /\ runs = 2
    /\ pc = "evaluated"
    /\ Len(df_store) = 2
    /\ df_store[1].installment_date = TargetDate
    /\ df_store[2].installment_date = TargetDate
    /\ df_calc[1].cash_flow = 0
    /\ df_calc[2].cash_flow = df_store[2].cash_flow
    /\ request.ops_expenses > df_store[1].cash_flow

(***************************************************************************)
(* optimization_service.py, perform_optimization: one candidate of the     *)
(* classic search (tranche count, maturity combination, strategy).         *)
(* Nominal amounts of the search are counted in thousands, so that         *)
(* round(n / 1000) * 1000 is the rounding of a fraction to an integer.     *)
(***************************************************************************)
TotalANominal == 1765000     \* total_a_nominal = 1765000000
MinGap == 15                 \* min_gap = 15
MaxSamples == 50             \* max_samples = 50

\* Python round(a * b / c) for a >= 0, b >= 0, c > 0, ties to even;
\* a is split so that no product leaves the integer range
MulDivRound(a, b, c) ==
    LET t == (a % c) * b
        whole == (a \div c) * b + (t \div c)
        r == t % c
    IN  IF 2 * r < c THEN whole
        ELSE IF 2 * r > c THEN whole + 1
        ELSE IF whole % 2 = 0 THEN whole ELSE whole + 1

RECURSIVE Gcd(_, _)
Gcd(a, b) == IF b = 0 THEN a ELSE Gcd(b, a % b)

RECURSIVE Lcm(_, _)
Lcm(lst, k) ==
    IF k >= NumTranches(lst) THEN 1
    ELSE LET rest == Lcm(lst, k + 1) IN (lst[k] \div Gcd(lst[k], rest)) * rest

\* list(range(maturity_range[0], maturity_range[1] + 1, maturity_step))
PossibleMaturities(lo, hi, step) ==
    IF hi < lo THEN {} ELSE {lo + k * step : k \in 0..((hi - lo) \div step)}

\* sorted(maturities) of a combination
SortedList(S) ==
    CHOOSE f \in [0..(Cardinality(S) - 1) -> S] :
        \A k \in DOMAIN f : k > 0 => f[k - 1] < f[k]

\* the combinations kept: every consecutive gap is min_gap or more
GapCheckPositive(lst) == \A k \in DOMAIN lst : k > 0 => lst[k] - lst[k - 1] > 0
GapCheck(lst) == \A k \in DOMAIN lst : k > 0 => lst[k] - lst[k - 1] >= MinGap

MaturityCombinations(possible, count) ==
    {c \in {SortedList(S) : S \in {T \in SUBSET possible : Cardinality(T) = count}} :
        GapCheck(c)}

StrategyNames == {"equal", "increasing", "decreasing", "middle_weighted"}

\* the weights of a strategy, as integers in the same proportions:
\*   increasing: the maturities; decreasing: 1 / maturity;
\*   middle_weighted: 1.0 each, 1.5 in the middle, 1.3 beside it when there
\*   are more than 3 tranches; equal (and middle_weighted below 3): all the same
Weights(strat, mats) ==
    LET n == NumTranches(mats)
        mid_idx == n \div 2
    IN  CASE strat = "increasing" -> mats
          [] strat = "decreasing" -> [k \in DOMAIN mats |-> Lcm(mats, 0) \div mats[k]]
          [] strat = "middle_weighted" /\ n >= 3 ->
                 [k \in DOMAIN mats |->
                     IF k = mid_idx THEN 15
                     ELSE IF n > 3 /\ (k = mid_idx - 1 \/ k = mid_idx + 1) THEN 13
                     ELSE 10]
          [] OTHER -> [k \in DOMAIN mats |-> 1]

\* total_nominal_amount - class_b_nominal, with
\* total_nominal_amount = total_a_nominal / (1 - p/100) and
\* class_b_nominal = total_nominal_amount * (p / 100)
RemainingNominal(p) == (TotalANominal * 100 - TotalANominal * p) \div (100 - p)

\* the distribution without the final adjustment of the last tranche
LastTrancheKeepsDrift(last, remaining, total) == last

\* a_nominals[-1] += remaining_nominal - sum(a_nominals)
LastTranche(last, remaining, total) == last + (remaining - total)

\* lines 810-846: weights, rounding, spreading the difference, rounding
\* again, and the drift put on the last tranche
DistributeNominals(strat, mats, remaining) ==
    LET n == NumTranches(mats)
        w == Weights(strat, mats)
        first == [k \in DOMAIN mats |-> MulDivRound(remaining, w[k], SumList(w, 0))]
        diff == remaining - SumList(first, 0)
        second == [k \in DOMAIN mats |-> PyRound(first[k] * n + diff, n)]
    IN  [k \in DOMAIN mats |->
            IF k = n - 1 THEN LastTranche(second[k], remaining, SumList(second, 0))
            ELSE second[k]]

(***************************************************************************)
(* SpecDist: the distribution of every candidate of a small search space   *)
(***************************************************************************)
MaxTrancheCount == 5     \* largest Class A tranche count of the candidates
RangeChoices == {[lo |-> 30, hi |-> 180, step |-> 30], [lo |-> 32, hi |-> 92, step |-> 12]}
PercentChoices == {0, 10, 50}

Candidates ==
    UNION {MaturityCombinations(PossibleMaturities(r.lo, r.hi, r.step), n) :
              r \in RangeChoices, n \in 1..MaxTrancheCount}

InitCandidate(cands) ==
    /\ IdleP
    /\ IdleDate
    /\ IdleW
    /\ IdleC
    /\ IdleS
    /\ IdleG
    /\ pos = "candidate"
    /\ strategy \in StrategyNames
    /\ maturities \in cands
    /\ min_class_b_percent \in PercentChoices
    /\ remaining_nominal = 0
    /\ a_nominals = EmptyList
    /\ unadjusted_nominals = EmptyList

IdleCalibrator ==
    /\ evaluate_behaviour = <<>>
    /\ iteration = 0
    /\ current_adjustment = 0
    /\ adjustment_direction = 0
    /\ best_diff = 0
    /\ best_nominals = EmptyList
    /\ success = FALSE
    /\ baseline_diff = 0
    /\ evaluations = 0
    /\ stopped_by = "none"
    /\ best_evaluation = NoEvaluation

calibvars == <<iteration, current_adjustment, adjustment_direction, best_diff,
               best_nominals, success, baseline_diff, evaluations, stopped_by,
               best_evaluation>>

InitDist ==
    /\ InitCandidate(Candidates)
    /\ IdleCalibrator

Distribute ==
    /\ pos = "candidate"
    /\ remaining_nominal' = RemainingNominal(min_class_b_percent)
    /\ a_nominals' = DistributeNominals(strategy, maturities,
                                        RemainingNominal(min_class_b_percent))
    /\ unadjusted_nominals' = a_nominals'
    /\ pos' = "distributed"
    /\ UNCHANGED <<pvars, dvars, wvars, cvars, gvars, svars, strategy, maturities, min_class_b_percent,
                   evaluate_behaviour, calibvars>>

NextDist == Distribute

SpecDist == InitDist /\ [][NextDist]_vars

\* C11: for every strategy, tranche count and maturity combination the
\* Class A nominal vector produced by the distribution (before calibration)
\* sums to the remaining nominal (total nominal minus the Class B share),
\* the drift left by the rounding being added to the last element.
C11_DistributionSum ==
    pos = "distributed" =>
        /\ remaining_nominal = TotalANominal
        /\ DOMAIN a_nominals = DOMAIN maturities
        /\ SumList(a_nominals, 0) = remaining_nominal

C11_Witness ==
    /\ pos = "distributed"
    /\ strategy = "equal"
    /\ NumTranches(maturities) = 3
    /\ a_nominals[0] = 588333
    /\ a_nominals[2] = 588334

(***************************************************************************)
(* adjust_class_a_nominals_for_target_coupon.  Coupon rates are counted in *)
(* tenths of a percentage point, the adjustment factor in 1/AdjScale.      *)
(* evaluate_coupon_rate is taken as given: evaluate_behaviour says what    *)
(* the baseline call and each later call returns or throws.                *)
(***************************************************************************)
MaxIterations == 50       \* max_iterations = 50
MaxAllowedDiff == 10      \* max_allowed_diff = 1.0
EarlyExitDiff == 2        \* rate_diff < 0.2
Inf == 1000000000         \* float('inf')
AdjPerScale == 100                   \* units of the adjustment factor per unit of Scale
AdjScale == AdjPerScale * Scale      \* the adjustment factor 1.0
MinAdjustment == AdjScale \div 1000  \* min_adjustment = 0.001
MaxAdjustment == 3 * AdjScale        \* max_adjustment = 3.0

Abs(x) == IF x < 0 THEN -x ELSE x

Throws == [throws |-> TRUE, rate |-> 0, min_buffer |-> 0]
Returns(rate, mb) == [throws |-> FALSE, rate |-> rate, min_buffer |-> mb]

\* lines 159-182: the initial direction and adjustment
InitialAdjustment(baseline_coupon_rate, target) ==
    IF baseline_coupon_rate < target
    THEN [direction |-> 1, adjustment |-> (12 * AdjScale) \div 10]
    ELSE [direction |-> -1,
          adjustment |->
              IF baseline_coupon_rate > 10 * target THEN AdjScale \div 100
              ELSE IF baseline_coupon_rate > 5 * target THEN (5 * AdjScale) \div 100
              ELSE IF baseline_coupon_rate > 2 * target THEN AdjScale \div 10
              ELSE (5 * AdjScale) \div 10]

\* lines 191-195: original_proportions[i] * original_a_total * current_adjustment,
\* rounded to the nearest 1000 with a floor of 1000; the factor enters the
\* product with the resolution of Scale
CurrentNominals(noms, adj) ==
    [k \in DOMAIN noms |-> Max(1, MulDivRound(noms[k], adj \div AdjPerScale, Scale))]

\* lines 228-251 with the factor left where it is on an overshoot
NextAdjustmentNoReflect(coupon_rate, target, dir, adj) ==
    LET moved ==
            IF coupon_rate < target
            THEN IF dir = 1 THEN [direction |-> 1, adjustment |-> (adj * 11) \div 10]
                 ELSE [direction |-> 1, adjustment |-> adj]
            ELSE IF dir = -1
                 THEN [direction |-> -1,
                       adjustment |-> IF coupon_rate > 2 * target THEN (adj * 7) \div 10
                                      ELSE (adj * 9) \div 10]
                 ELSE [direction |-> -1, adjustment |-> adj]
    IN  [direction |-> moved.direction,
         adjustment |-> Max(MinAdjustment, Min(MaxAdjustment, moved.adjustment))]

\* lines 228-251: the next adjustment factor, kept within its limits
NextAdjustment(coupon_rate, target, dir, adj) ==
    LET moved ==
            IF coupon_rate < target
            THEN IF dir = 1 THEN [direction |-> 1, adjustment |-> (adj * 11) \div 10]
                 ELSE [direction |-> 1, adjustment |-> AdjScale + (AdjScale - adj) \div 2]
            ELSE IF dir = -1
                 THEN [direction |-> -1,
                       adjustment |-> IF coupon_rate > 2 * target THEN (adj * 7) \div 10
                                      ELSE (adj * 9) \div 10]
                 ELSE [direction |-> -1, adjustment |-> AdjScale - (adj - AdjScale) \div 2]
    IN  [direction |-> moved.direction,
         adjustment |-> Max(MinAdjustment, Min(MaxAdjustment, moved.adjustment))]

\* line 213 without the comparison with the best so far
IsBetterAnyValid(min_buffer_actual, min_buffer, rate_diff, best) ==
    min_buffer_actual >= min_buffer

\* line 213 without the buffer requirement
IsBetterAnyBuffer(min_buffer_actual, min_buffer, rate_diff, best) == rate_diff < best

\* line 213: min_buffer_actual >= min_buffer and rate_diff < best_diff
IsBetter(min_buffer_actual, min_buffer, rate_diff, best) ==
    min_buffer_actual >= min_buffer /\ rate_diff < best

\* line 254 with the iteration test dropped
ConvergedAnyIteration(adj, iter) == Abs(adj - AdjScale) < AdjScale \div 10000

\* line 254: abs(current_adjustment - 1.0) < 0.0001 and iteration > 10
Converged(adj, iter) == Abs(adj - AdjScale) < AdjScale \div 10000 /\ iter > 10

(***************************************************************************)
(* SpecCal: one candidate of the classic search through distribution,      *)
(* calibration and the choice of the vector that is evaluated              *)
(***************************************************************************)
MaxScript == 2                 \* length of the repeating behaviour of the evaluation
TargetCouponRate == 300        \* target_class_b_coupon_rate = 30.0

BaselineOutcomes ==
    {Throws,
     Returns(0, 6), Returns(TargetCouponRate - 1, 6), Returns(TargetCouponRate + 5, 6),
     Returns(2 * TargetCouponRate + 100, 6), Returns(5 * TargetCouponRate + 100, 6),
     Returns(10 * TargetCouponRate + 100, 6)}

LoopOutcomes ==
    {Throws,
     Returns(0, 6), Returns(TargetCouponRate - 5, 6), Returns(TargetCouponRate - 1, 6),
     Returns(TargetCouponRate, 4), Returns(TargetCouponRate + 5, 6),
     Returns(2 * TargetCouponRate + 100, 6)}

Behaviours ==
    {[baseline |-> b, script |-> sc] :
        b \in BaselineOutcomes,
        sc \in UNION {[1..len -> LoopOutcomes] : len \in 1..MaxScript}}

CalCandidates == {c \in Candidates : NumTranches(c) = 2 /\ c[0] = 30 /\ c[1] = 60}

InitCal ==
    /\ InitCandidate(CalCandidates)
    /\ strategy \in {"equal", "decreasing"}
    /\ min_class_b_percent = 10
    /\ evaluate_behaviour \in Behaviours
    /\ iteration = 0
    /\ current_adjustment = 0
    /\ adjustment_direction = 0
    /\ best_diff = Inf
    /\ best_nominals = EmptyList
    /\ success = FALSE
    /\ baseline_diff = Inf
    /\ evaluations = 0
    /\ stopped_by = "none"
    /\ best_evaluation = NoEvaluation

candvars == <<strategy, maturities, min_class_b_percent, remaining_nominal,
              unadjusted_nominals, evaluate_behaviour>>

\* lines 134-186: the baseline evaluation; an exception ends the call with
\* (a_nominals, False)
CalibrateBaseline ==
    /\ pos = "distributed"
    /\ evaluate_behaviour # <<>>
    /\ LET b == evaluate_behaviour.baseline
           start == InitialAdjustment(b.rate, TargetCouponRate)
       IN  IF b.throws
           THEN /\ pos' = "returned"
                /\ stopped_by' = "baseline_error"
                /\ UNCHANGED <<current_adjustment, adjustment_direction, baseline_diff>>
           ELSE /\ pos' = "loop"
                /\ current_adjustment' = start.adjustment
                /\ adjustment_direction' = start.direction
                /\ baseline_diff' = Abs(b.rate - TargetCouponRate)
                /\ UNCHANGED stopped_by
    /\ best_diff' = Inf
    /\ best_nominals' = a_nominals
    /\ best_evaluation' = NoEvaluation
    /\ success' = FALSE
    /\ iteration' = 0
    /\ UNCHANGED <<pvars, dvars, wvars, cvars, gvars, svars, candvars, a_nominals, evaluations>>

\* lines 189-261: one iteration of the loop
CalibrateIterate ==
    /\ pos = "loop"
    /\ iteration < MaxIterations
    /\ evaluations' = evaluations + 1
    /\ LET current_nominals == CurrentNominals(a_nominals, current_adjustment)
           script == evaluate_behaviour.script
           o == script[(evaluations % Len(script)) + 1]
           rate_diff == Abs(o.rate - TargetCouponRate)
           better == IsBetter(o.min_buffer, MinBufferChoice, rate_diff, best_diff)
           hit == better /\ rate_diff <= MaxAllowedDiff /\ rate_diff < EarlyExitDiff
           next == NextAdjustment(o.rate, TargetCouponRate, adjustment_direction,
                                  current_adjustment)
       IN  IF o.throws
           THEN /\ iteration' = iteration + 1
                /\ UNCHANGED <<pos, current_adjustment, adjustment_direction, best_diff,
                               best_nominals, best_evaluation, success, stopped_by>>
           ELSE /\ best_diff' = IF better THEN rate_diff ELSE best_diff
                /\ best_evaluation' = IF better THEN o ELSE best_evaluation
                /\ best_nominals' = IF better THEN current_nominals ELSE best_nominals
                /\ success' = (success \/ (better /\ rate_diff <= MaxAllowedDiff))
                /\ IF hit
                   THEN /\ pos' = "done"
                        /\ stopped_by' = "hit"
                        /\ UNCHANGED <<iteration, current_adjustment, adjustment_direction>>
                   ELSE /\ current_adjustment' = next.adjustment
                        /\ adjustment_direction' = next.direction
                        /\ IF Converged(next.adjustment, iteration)
                           THEN /\ pos' = "done"
                                /\ stopped_by' = "converged"
                                /\ UNCHANGED iteration
                           ELSE /\ iteration' = iteration + 1
                                /\ UNCHANGED <<pos, stopped_by>>
    /\ UNCHANGED <<pvars, dvars, wvars, cvars, gvars, svars, candvars, a_nominals, baseline_diff>>

\* lines 263-269: the loop has ended, by a break or at the cap
CalibrateReturn ==
    /\ \/ pos = "done"
       \/ pos = "loop" /\ iteration >= MaxIterations
    /\ pos' = "returned"
    /\ stopped_by' = IF pos = "loop" THEN "cap" ELSE stopped_by
    /\ UNCHANGED <<pvars, dvars, wvars, cvars, gvars, svars, candvars, a_nominals, iteration,
                   current_adjustment, adjustment_direction, best_diff, best_nominals,
                   best_evaluation, success, baseline_diff, evaluations>>

\* the caller adopting the returned vector whatever the flag says
AdoptedAlways(ok, adjusted, unadjusted) == adjusted

\* lines 865-866: if success: a_nominals = adjusted_a_nominals
Adopted(ok, adjusted, unadjusted) == IF ok THEN adjusted ELSE unadjusted

AdoptResult ==
    /\ pos = "returned"
    /\ a_nominals' = Adopted(success, best_nominals, a_nominals)
    /\ pos' = "adopted"
    /\ UNCHANGED <<pvars, dvars, wvars, cvars, gvars, svars, candvars, calibvars>>

NextCal == Distribute \/ CalibrateBaseline \/ CalibrateIterate \/ CalibrateReturn
           \/ AdoptResult

SpecCal == InitCal /\ [][NextCal]_vars

(***************************************************************************)
(* Properties of the candidate and of the calibrator (SpecCal)             *)
(***************************************************************************)
\* C12: the Class A nominal vector a search evaluates and reports sums
\* exactly to the remaining nominal (total minus the Class B share); here
\* for the vector the classic search goes on with after the calibrator.
C12_EvaluatedVectorSum ==
    pos = "adopted" => SumList(a_nominals, 0) = remaining_nominal

\* C14: when the calibrator returns with success = true, the coupon-rate
\* distance to target of the vector it returns is less than or equal to the
\* distance of the baseline (unadjusted) vector.
C14_NoWorseThanBaseline ==
    (pos \in {"returned", "adopted"} /\ success) => best_diff <= baseline_diff

\* C15: the calibrator reports a failure through success = false only: an
\* evaluation that throws never ends the call otherwise, and success is
\* true exactly when some buffer-valid evaluation came within the allowed
\* difference of the target; the classic search goes on with the returned
\* vector when success is true and with the unadjusted distribution
\* nominals when it is false.
C15_FailureMeansUnadjusted ==
    /\ pos \in {"returned", "adopted"} =>
          /\ success <=> best_diff <= MaxAllowedDiff
          /\ stopped_by = "baseline_error" =>
                (~success /\ best_nominals = unadjusted_nominals)
          /\ stopped_by \in {"baseline_error", "hit", "converged", "cap"}
    /\ pos = "adopted" =>
          /\ success => a_nominals = best_nominals
          /\ ~success => a_nominals = unadjusted_nominals

C15_Witness ==
    /\ pos = "adopted"
    /\ ~success
    /\ stopped_by = "cap"
    /\ best_diff < Inf
    /\ best_nominals # unadjusted_nominals
    /\ a_nominals = unadjusted_nominals
    /\ \E k \in 1..Len(evaluate_behaviour.script) : evaluate_behaviour.script[k].throws

C30_FactorSideFollowsDirection ==
    /\ []((pos \in {"loop", "done"} \/ (pos \in {"returned", "adopted"} /\ stopped_by # "baseline_error")) =>
            /\ MinAdjustment <= current_adjustment
            /\ current_adjustment <= MaxAdjustment
            /\ adjustment_direction \in {1, -1}
            /\ adjustment_direction = 1 <=> current_adjustment > AdjScale
            /\ adjustment_direction = -1 <=> current_adjustment < AdjScale)
    /\ [][(pos = "loop" /\ adjustment_direction' # adjustment_direction) =>
            \E half \in {Abs(current_adjustment - AdjScale) \div 2, (Abs(current_adjustment - AdjScale) + 1) \div 2} :
                current_adjustment' =
                    Max(MinAdjustment, Min(MaxAdjustment, AdjScale + adjustment_direction' * half))]_vars

\* a reversal from 'decrease' has brought the factor between 1.0 and the
\* initial 1.2
C30_Witness ==
    /\ pos = "loop"
    /\ iteration >= 2
    /\ adjustment_direction = 1
    /\ current_adjustment > AdjScale
    /\ current_adjustment < (12 * AdjScale) \div 10

\* C27: the best-so-far vector is replaced only by a vector whose evaluation
\* met the minimum buffer and whose distance to the target is strictly smaller
\* than the best so far; whenever success is true the best vector is one that
\* was evaluated with a buffer >= the minimum and a distance <= the tolerance.
C27_BestIsBufferValid ==
    /\ [](best_evaluation # NoEvaluation =>
            /\ ~best_evaluation.throws
            /\ best_evaluation.min_buffer >= MinBufferChoice
            /\ Abs(best_evaluation.rate - TargetCouponRate) = best_diff)
    /\ []((pos \in {"loop", "done", "returned", "adopted"} /\ success) =>
            /\ best_evaluation # NoEvaluation
            /\ best_diff <= MaxAllowedDiff
            /\ best_nominals # EmptyList)
    /\ [][(pos = "loop" /\ (best_nominals' # best_nominals \/ best_evaluation' # best_evaluation)) =>
            /\ best_evaluation'.min_buffer >= MinBufferChoice
            /\ best_diff' < best_diff]_vars

C27_Witness ==
    /\ pos = "returned"
    /\ success
    /\ evaluations >= 3
    /\ best_diff > 0
    /\ best_evaluation.min_buffer >= MinBufferChoice
    /\ \E k \in 1..Len(evaluate_behaviour.script) :
          /\ ~evaluate_behaviour.script[k].throws
          /\ evaluate_behaviour.script[k].min_buffer < MinBufferChoice
          /\ Abs(evaluate_behaviour.script[k].rate - TargetCouponRate) < best_diff

\* ---------------------------------------------------------------------
\* perform_optimization: the classic search loop
\* (tranche counts x maturity combinations x distribution strategies).
\* Coupon-rate differences are in tenths of a percent, buffers in percent.
\* ---------------------------------------------------------------------

\* the None of a strategy that holds no result yet
NoBest == [none |-> TRUE]

DistributionStrategies == <<"equal", "increasing", "decreasing", "middle_weighted">>

get_last_cash_flow_day(last_cash_flow_date) == IF last_cash_flow_date = NaT THEN 365 ELSE Max(0, last_cash_flow_date)

ClassBMaturity(lcd, additional_days) == Min(365, lcd + additional_days)

\* the position of a combination in the order itertools.combinations yields
LexLess(c, d) == \E k \in DOMAIN c : c[k] < d[k] /\ \A j \in DOMAIN c : j < k => c[j] = d[j]
CombinationAt(all, k) == CHOOSE c \in all : Cardinality({d \in all : LexLess(d, c)}) = k

\* np.exp(-coupon_rate_diff / 5.0) in thousandths, for the differences the evaluations give
CouponRateWeight(diff) == CASE diff = 0 -> 1000 [] diff = 1 -> 980 [] diff = 5 -> 905 [] diff = 200 -> 18 [] OTHER -> 0

WeightedPrincipal(total_principal, diff) == (total_principal * CouponRateWeight(diff)) \div 1000

BufferValidStrict(min_buffer_actual, min_buffer) == min_buffer_actual > min_buffer
BufferValid(min_buffer_actual, min_buffer) == min_buffer_actual >= min_buffer

IsBetterCandidate(diff, wp, best_d, best_wp) ==
    IF diff <= best_d
    THEN diff < best_d \/ wp > best_wp
    ELSE diff <= MaxAllowedDiff /\ wp > best_wp

\* the lexicographic rule: smaller difference first, larger weighted score on a tie
LexicographicUpdate(best, diff, wp) ==
    IF best = NoBest THEN [coupon_rate_diff |-> diff, weighted_principal |-> wp]
    ELSE IF diff < best.coupon_rate_diff \/ (diff = best.coupon_rate_diff /\ wp > best.weighted_principal)
         THEN [coupon_rate_diff |-> diff, weighted_principal |-> wp]
         ELSE best

ValidStrategies(best_results) == {s \in StrategyNames : best_results[s] # NoBest}

StrategyIndex(s) == CHOOSE k \in DOMAIN DistributionStrategies : DistributionStrategies[k] = s

\* the key of line 1088; min() keeps the first of equal keys in dictionary order
KeyLess(a, b) ==
    \/ a.coupon_rate_diff < b.coupon_rate_diff
    \/ a.coupon_rate_diff = b.coupon_rate_diff /\ a.total_principal > b.total_principal

BestOverallStrategy(best_results) ==
    CHOOSE s \in ValidStrategies(best_results) :
        \A t \in ValidStrategies(best_results) \ {s} :
            \/ KeyLess(best_results[s], best_results[t])
            \/ ~KeyLess(best_results[t], best_results[s]) /\ StrategyIndex(s) < StrategyIndex(t)

\* what one evaluation of a candidate may give
ThrowingOutcome == [throws |-> TRUE, min_buffer_actual |-> 0, coupon_rate_diff |-> 0, total_principal |-> 0]
Evaluated(mb, diff, tp) == [throws |-> FALSE, min_buffer_actual |-> mb, coupon_rate_diff |-> diff, total_principal |-> tp]

AllOutcomes ==
    {ThrowingOutcome, Evaluated(4, 1, 5000), Evaluated(5, 1, 1000), Evaluated(6, 1, 1100),
     Evaluated(6, 5, 1200), Evaluated(6, 200, 100000)}

FewOutcomes == {ThrowingOutcome, Evaluated(4, 1, 5000)}

LastCashFlowChoices == {NaT, 20, 50}

\* what the baseline evaluation of the calibrator may give: an exception
\* (None) or a coupon rate; a rate of 0 is always a Python float, a positive
\* rate is a Python float or a NumPy float depending on the cash-flow data
BaselineCouponRates == {None, 0, 50}

\* lines 159-170: baseline_coupon_rate / target_coupon_rate is reached when
\* the baseline is not below the target; with a target of 0 the division of
\* Python floats raises ZeroDivisionError, that of a NumPy float gives inf
DivisionRaises(baseline_coupon_rate, target, numpy_float) ==
    /\ baseline_coupon_rate # None
    /\ ~(baseline_coupon_rate < target)
    /\ target = 0
    /\ (baseline_coupon_rate = 0 \/ ~numpy_float)

SearchSettings ==
    {[method |-> "classic", a_tranches_range |-> r, maturity_range |-> <<30, 60>>, maturity_step |-> 30, additional_days |-> 10, last_cash_flow_date |-> d, min_buffer |-> MinBufferChoice, target_class_b_coupon_rate |-> TargetCouponRate, outcomes |-> AllOutcomes] : r \in {<<1, 2>>, <<3, 3>>}, d \in LastCashFlowChoices}
    \cup {[method |-> "classic", a_tranches_range |-> <<2, 2>>, maturity_range |-> <<30, 140>>, maturity_step |-> 10, additional_days |-> 10, last_cash_flow_date |-> 200, min_buffer |-> MinBufferChoice, target_class_b_coupon_rate |-> TargetCouponRate, outcomes |-> FewOutcomes]}
    \cup {[method |-> "classic", a_tranches_range |-> <<1, 2>>, maturity_range |-> <<30, 60>>, maturity_step |-> 30, additional_days |-> 10, last_cash_flow_date |-> 50, min_buffer |-> MinBufferChoice, target_class_b_coupon_rate |-> 0, outcomes |-> AllOutcomes]}

InitS ==
    /\ IdleP
    /\ IdleDate
    /\ IdleW
    /\ IdleC
    /\ IdleCal
    /\ IdleG
    /\ pos = "start"
    /\ search_settings \in SearchSettings
    /\ last_cash_flow_day = 0
    /\ num_a_tranches = 0
    /\ maturity_combinations = {}
    /\ combo_count = 0
    /\ combo_idx = 0
    /\ strategy_idx = 0
    /\ class_b_maturity = 0
    /\ best_results_by_strategy = EmptyList
    /\ best_coupon_rate_diff_by_strategy = EmptyList
    /\ best_weighted_principal_by_strategy = EmptyList
    /\ lexicographic_best = EmptyList
    /\ valid_seen = FALSE
    /\ search_result = NoResult

calrest == <<min_class_b_percent, remaining_nominal, a_nominals, unadjusted_nominals, evaluate_behaviour, calibvars>>

\* line 877: all_maturity_days = a_maturity_days + b_maturity_days
AllMaturityDays == Concat(maturities, class_b_maturity)

\* lines 641-726: settings, the per-strategy trackers, the last cash flow day
StartSearch ==
    /\ pos = "start"
    /\ last_cash_flow_day' = get_last_cash_flow_day(search_settings.last_cash_flow_date)
    /\ num_a_tranches' = search_settings.a_tranches_range[1]
    /\ best_results_by_strategy' = [s \in StrategyNames |-> NoBest]
    /\ best_coupon_rate_diff_by_strategy' = [s \in StrategyNames |-> Inf]
    /\ best_weighted_principal_by_strategy' = [s \in StrategyNames |-> 0]
    /\ lexicographic_best' = [s \in StrategyNames |-> NoBest]
    /\ pos' = "tranche_count"
    /\ UNCHANGED <<pvars, dvars, wvars, cvars, gvars, calrest, strategy, maturities, search_settings,
                   maturity_combinations, combo_count, combo_idx, strategy_idx,
                   class_b_maturity, valid_seen, search_result>>

\* lines 728-756: the combinations of one tranche count, sampled down to max_samples
BeginTrancheCount ==
    /\ pos = "tranche_count"
    /\ num_a_tranches <= search_settings.a_tranches_range[2]
    /\ LET possible == PossibleMaturities(search_settings.maturity_range[1], search_settings.maturity_range[2], search_settings.maturity_step)
           all == MaturityCombinations(possible, num_a_tranches)
       IN /\ maturity_combinations' = all
          /\ combo_count' = Min(MaxSamples, Cardinality(all))
    /\ combo_idx' = 0
    /\ pos' = "combos"
    /\ UNCHANGED <<pvars, dvars, wvars, cvars, gvars, calrest, strategy, maturities, search_settings,
                   last_cash_flow_day, num_a_tranches, strategy_idx, class_b_maturity,
                   best_results_by_strategy, best_coupon_rate_diff_by_strategy,
                   best_weighted_principal_by_strategy, lexicographic_best, valid_seen,
                   search_result>>

\* lines 759-793: the next combination; a sample is any of the combinations
NextCombination ==
    /\ pos = "combos"
    /\ combo_idx < combo_count
    /\ maturities' \in (IF Cardinality(maturity_combinations) > MaxSamples
                        THEN maturity_combinations
                        ELSE {CombinationAt(maturity_combinations, combo_idx)})
    /\ class_b_maturity' = ClassBMaturity(last_cash_flow_day, search_settings.additional_days)
    /\ strategy_idx' = 0
    /\ pos' = "strategies"
    /\ UNCHANGED <<pvars, dvars, wvars, cvars, gvars, calrest, strategy, search_settings,
                   last_cash_flow_day, num_a_tranches, maturity_combinations, combo_count,
                   combo_idx,
                   best_results_by_strategy, best_coupon_rate_diff_by_strategy,
                   best_weighted_principal_by_strategy, lexicographic_best, valid_seen,
                   search_result>>

\* lines 849-863 and 170: the calibrator is called outside the try block of
\* the candidate (lines 886-1054), so the ZeroDivisionError of its line 170
\* leaves perform_optimization
AbortCandidate ==
    /\ pos = "strategies"
    /\ strategy_idx < Len(DistributionStrategies)
    /\ \E b \in BaselineCouponRates, numpy_float \in BOOLEAN :
          DivisionRaises(b, search_settings.target_class_b_coupon_rate, numpy_float)
    /\ strategy' = DistributionStrategies[strategy_idx + 1]
    /\ search_result' = [finished |-> TRUE, raised |-> "float division by zero",
                         best_strategy |-> "none", min_buffer_actual |-> 0, results_by_strategy |-> {}]
    /\ pos' = "finished"
    /\ UNCHANGED <<pvars, dvars, wvars, cvars, gvars, calrest, maturities, search_settings,
                   last_cash_flow_day, num_a_tranches, maturity_combinations, combo_count,
                   combo_idx, strategy_idx, class_b_maturity,
                   best_results_by_strategy, best_coupon_rate_diff_by_strategy,
                   best_weighted_principal_by_strategy, lexicographic_best, valid_seen>>

\* lines 796-1057: one strategy of the combination is distributed, calibrated,
\* evaluated and compared
ProcessCandidate ==
    /\ pos = "strategies"
    /\ strategy_idx < Len(DistributionStrategies)
    /\ \E b \in BaselineCouponRates, numpy_float \in BOOLEAN :
          ~DivisionRaises(b, search_settings.target_class_b_coupon_rate, numpy_float)
    /\ LET s == DistributionStrategies[strategy_idx + 1]
       IN /\ strategy' = s
          /\ \E o \in search_settings.outcomes :
                LET wp == WeightedPrincipal(o.total_principal, o.coupon_rate_diff)
                    valid == ~o.throws /\ BufferValid(o.min_buffer_actual, search_settings.min_buffer)
                    better == valid /\ IsBetterCandidate(o.coupon_rate_diff, wp, best_coupon_rate_diff_by_strategy[s], best_weighted_principal_by_strategy[s])
                IN /\ valid_seen' = (valid_seen \/ (~o.throws /\ o.min_buffer_actual >= search_settings.min_buffer))
                   /\ lexicographic_best' =
                        IF ~o.throws /\ o.min_buffer_actual >= search_settings.min_buffer
                        THEN [lexicographic_best EXCEPT ![s] = LexicographicUpdate(@, o.coupon_rate_diff, wp)]
                        ELSE lexicographic_best
                   /\ best_coupon_rate_diff_by_strategy' =
                        IF better THEN [best_coupon_rate_diff_by_strategy EXCEPT ![s] = o.coupon_rate_diff]
                        ELSE best_coupon_rate_diff_by_strategy
                   /\ best_weighted_principal_by_strategy' =
                        IF better THEN [best_weighted_principal_by_strategy EXCEPT ![s] = wp]
                        ELSE best_weighted_principal_by_strategy
                   /\ best_results_by_strategy' =
                        IF better
                        THEN [best_results_by_strategy EXCEPT ![s] =
                                [min_buffer_actual |-> o.min_buffer_actual,
                                 total_principal |-> o.total_principal,
                                 coupon_rate_diff |-> o.coupon_rate_diff,
                                 weighted_principal |-> wp]]
                        ELSE best_results_by_strategy
    /\ IF strategy_idx + 1 < Len(DistributionStrategies)
       THEN /\ strategy_idx' = strategy_idx + 1
            /\ UNCHANGED <<pos, combo_idx>>
       ELSE /\ strategy_idx' = 0
            /\ combo_idx' = combo_idx + 1
            /\ pos' = "combos"
    /\ UNCHANGED <<pvars, dvars, wvars, cvars, gvars, calrest, maturities, search_settings,
                   last_cash_flow_day, num_a_tranches, maturity_combinations, combo_count,
                   class_b_maturity, search_result>>

\* the combinations of this tranche count are exhausted
EndTrancheCount ==
    /\ pos = "combos"
    /\ combo_idx >= combo_count
    /\ num_a_tranches' = num_a_tranches + 1
    /\ pos' = "tranche_count"
    /\ UNCHANGED <<pvars, dvars, wvars, cvars, gvars, calrest, strategy, maturities, search_settings,
                   last_cash_flow_day, maturity_combinations, combo_count, combo_idx,
                   strategy_idx, class_b_maturity,
                   best_results_by_strategy, best_coupon_rate_diff_by_strategy,
                   best_weighted_principal_by_strategy, lexicographic_best, valid_seen,
                   search_result>>

\* lines 1074-1135: raise when no strategy holds a result, else return the best overall
FinishSearch ==
    /\ pos = "tranche_count"
    /\ num_a_tranches > search_settings.a_tranches_range[2]
    /\ search_result' =
         IF ValidStrategies(best_results_by_strategy) = {}
         THEN [finished |-> TRUE, raised |-> "No valid configuration found",
               best_strategy |-> "none", min_buffer_actual |-> 0, results_by_strategy |-> {}]
         ELSE LET best == BestOverallStrategy(best_results_by_strategy)
              IN [finished |-> TRUE, raised |-> "none",
                  best_strategy |-> best,
                  min_buffer_actual |-> best_results_by_strategy[best].min_buffer_actual,
                  results_by_strategy |-> ValidStrategies(best_results_by_strategy)]
    /\ pos' = "finished"
    /\ UNCHANGED <<pvars, dvars, wvars, cvars, gvars, calrest, strategy, maturities, search_settings,
                   last_cash_flow_day, num_a_tranches, maturity_combinations, combo_count,
                   combo_idx, strategy_idx, class_b_maturity,
                   best_results_by_strategy, best_coupon_rate_diff_by_strategy,
                   best_weighted_principal_by_strategy, lexicographic_best, valid_seen>>

NextS ==
    \/ StartSearch
    \/ BeginTrancheCount
    \/ NextCombination
    \/ AbortCandidate
    \/ ProcessCandidate
    \/ EndTrancheCount
    \/ FinishSearch

SpecS == InitS /\ [][NextS]_vars

\* C13: in every evaluation of the classic search the maturity sequence handed
\* to the waterfall (the Class A maturities, then the Class B maturity) is in
\* ascending order, so Class B never matures before the last Class A tranche.
C13_MaturitySequenceAscending ==
    pos = "strategies" =>
        \A k \in DOMAIN AllMaturityDays :
            k > 0 => AllMaturityDays[k - 1] <= AllMaturityDays[k]

\* C17: for every strategy the retained best is the lexicographic best of the
\* buffer-valid candidates processed so far (smallest coupon-rate difference,
\* larger weighted score on a tie).
C17_LexicographicBest ==
    pos \in {"tranche_count", "combos", "strategies", "finished"} =>
        \A s \in StrategyNames :
            IF lexicographic_best[s] = NoBest
            THEN best_results_by_strategy[s] = NoBest
            ELSE /\ best_results_by_strategy[s] # NoBest
                 /\ best_results_by_strategy[s].coupon_rate_diff = lexicographic_best[s].coupon_rate_diff
                 /\ best_results_by_strategy[s].weighted_principal = lexicographic_best[s].weighted_principal

\* C18: the search raises 'No valid configuration found' exactly when no
\* evaluated candidate met the required minimum buffer (no candidate at all
\* included); otherwise the returned min_buffer_actual meets the requirement
\* and best_strategy is one of the strategies of results_by_strategy.
C18_RaisesIffNoValidCandidate ==
    pos = "finished" =>
        /\ search_result.finished
        /\ (search_result.raised = "No valid configuration found") <=> ~valid_seen
        /\ search_result.raised \in {"No valid configuration found", "none"}
        /\ search_result.raised = "none" =>
              /\ search_result.min_buffer_actual >= search_settings.min_buffer
              /\ search_result.best_strategy \in search_result.results_by_strategy

C18_Witness ==
    /\ pos = "finished"
    /\ search_result.raised = "none"
    /\ search_result.min_buffer_actual = search_settings.min_buffer
    /\ Cardinality(search_result.results_by_strategy) = 1

C18_WitnessRaised ==
    /\ pos = "finished"
    /\ search_result.raised = "No valid configuration found"
    /\ search_settings.a_tranches_range = <<1, 2>>

\* C21: an exception thrown while one candidate is processed (calibration,
\* waterfall or evaluation) is confined to that candidate: from a candidate
\* the classic search always goes on to the next one, and it ends only by
\* returning or by raising 'No valid configuration found', a target coupon
\* rate of 0 included.
C21_ExceptionConfinedToCandidate ==
    /\ [][pos = "strategies" => pos' \in {"strategies", "combos"}]_vars
    /\ [](search_result # NoResult => search_result.raised # "float division by zero")

\* C19: every combination the search evaluates is drawn from the stepped
\* maturity range, is strictly increasing with consecutive values at least
\* 15 days apart, and at most 50 combinations are evaluated per tranche count.
C19_CombinationsSpacedAndCapped ==
    /\ pos = "strategies" =>
          /\ NumTranches(maturities) = num_a_tranches
          /\ \A k \in DOMAIN maturities :
                /\ maturities[k] \in PossibleMaturities(search_settings.maturity_range[1], search_settings.maturity_range[2], search_settings.maturity_step)
                /\ k > 0 => maturities[k] - maturities[k - 1] >= 15
          /\ combo_idx < 50
    /\ pos \in {"combos", "strategies"} => combo_idx <= 50

C19_Witness ==
    /\ pos = "strategies"
    /\ combo_idx = 49
    /\ Cardinality(maturity_combinations) > 50
    /\ search_settings.maturity_step < 15
    /\ maturities[1] - maturities[0] = 20

\* ---------------------------------------------------------------------
\* perform_genetic_optimization: the maturities of the individuals.
\* An individual is its list of 4 maturities; nominal weights and fitness
\* are left out (any individual can win a tournament or be an elite).
\* ---------------------------------------------------------------------

NumATranchesGenetic == 4

\* random.randint(a, b) reduced to its two end points
RandInt(a, b, draw) == IF draw = "low" THEN a ELSE b

NextMaturity(prev, max_maturity, draw) ==
    LET max_new == Min(max_maturity, prev + 120)
        min_new == IF prev + MinGap > max_new THEN max_new ELSE prev + MinGap
    IN RandInt(min_new, max_new, draw)

RECURSIVE BuildMaturities(_, _, _, _)
BuildMaturities(lst, max_maturity, draws, j) ==
    IF j >= NumATranchesGenetic THEN lst
    ELSE BuildMaturities(Concat(lst, NextMaturity(lst[j - 1], max_maturity, draws[j])), max_maturity, draws, j + 1)

create_valid_individual(min_maturity, max_maturity, draws) ==
    BuildMaturities(Concat(EmptyList, RandInt(min_maturity, min_maturity + 60, draws[0])), max_maturity, draws, 1)

\* the draws of one individual: all low or all high
DrawPatterns ==
    {[k \in 0..(NumATranchesGenetic - 1) |-> "low"],
     [k \in 0..(NumATranchesGenetic - 1) |-> "high"]}

\* sorted(child_maturities), duplicates kept
RankOf(lst, k) == Cardinality({j \in DOMAIN lst : lst[j] < lst[k] \/ (lst[j] = lst[k] /\ j < k)})
SortedDays(lst) == [r \in DOMAIN lst |-> lst[CHOOSE k \in DOMAIN lst : RankOf(lst, k) = r]]

\* lines 1410-1412: push a maturity up when it is closer than min_gap to the one before
RECURSIVE RepairGaps(_, _)
RepairGaps(lst, k) ==
    IF k >= NumTranches(lst) THEN lst
    ELSE RepairGaps(IF lst[k] - lst[k - 1] < MinGap THEN [lst EXCEPT ![k] = lst[k - 1] + MinGap] ELSE lst, k + 1)

\* lines 1398-1412: each gene from one of the parents, sorted, repaired
CoinPatterns == {[k \in 0..(NumATranchesGenetic - 1) |-> TRUE], [k \in 0..(NumATranchesGenetic - 1) |-> k % 2 = 0]}

CrossoverMaturities(parent1, parent2, coins) ==
    RepairGaps(SortedDays([k \in 0..(NumATranchesGenetic - 1) |-> IF coins[k] THEN parent1[k] ELSE parent2[k]]), 1)

\* lines 1427-1444: the maturity mutation; raises is randint's ValueError on an empty range
Mutation(at, d) == [mutate |-> TRUE, mutation_idx |-> at, draw |-> d]
Mutations == {[mutate |-> FALSE, mutation_idx |-> 0, draw |-> "low"], Mutation(0, "high"), Mutation(1, "low"), Mutation(NumATranchesGenetic - 1, "low")}

MutationRange(child, m, min_maturity, max_maturity) ==
    IF m.mutation_idx = 0
    THEN <<min_maturity, Min(child[1] - MinGap, min_maturity + 60)>>
    ELSE IF m.mutation_idx = NumATranchesGenetic - 1
         THEN <<child[NumATranchesGenetic - 2] + MinGap, max_maturity>>
         ELSE <<child[m.mutation_idx - 1] + MinGap, child[m.mutation_idx + 1] - MinGap>>

IsEndGene(m) == m.mutation_idx = 0 \/ m.mutation_idx = NumATranchesGenetic - 1

MutationRaises(child, m, min_maturity, max_maturity) ==
    LET r == MutationRange(child, m, min_maturity, max_maturity)
    IN m.mutate /\ IsEndGene(m) /\ r[1] > r[2]

MutateMaturities(child, m, min_maturity, max_maturity) ==
    LET r == MutationRange(child, m, min_maturity, max_maturity)
    IN IF ~m.mutate THEN child
       ELSE IF IsEndGene(m) THEN [child EXCEPT ![m.mutation_idx] = RandInt(r[1], r[2], m.draw)]
       ELSE IF r[1] < r[2] THEN [child EXCEPT ![m.mutation_idx] = RandInt(r[1], r[2], m.draw)]
       ELSE child

EliteCount(population_size) == Max(2, population_size \div 10)

GeneticSettings ==
    {[method |-> "genetic", maturity_range |-> <<32, 365>>, population_size |-> 5, num_generations |-> 1],
     [method |-> "genetic", maturity_range |-> <<32, 80>>, population_size |-> 5, num_generations |-> 1]}

InitG ==
    /\ IdleP
    /\ IdleDate
    /\ IdleW
    /\ IdleC
    /\ IdleCal
    /\ IdleS
    /\ pos = "initializing"
    /\ genetic_settings \in GeneticSettings
    /\ population = {}
    /\ population_count = 0
    /\ new_population = {}
    /\ new_count = 0
    /\ generation = 0
    /\ crossover_attempts = 0
    /\ individual = NoIndividual

\* lines 1260-1281: one individual of the initial population
CreateInitial ==
    /\ pos = "initializing"
    /\ population_count < genetic_settings.population_size
    /\ \E draws \in DrawPatterns :
          LET m == create_valid_individual(genetic_settings.maturity_range[1], genetic_settings.maturity_range[2], draws)
          IN /\ population' = population \cup {m}
             /\ individual' = [origin |-> "initial", maturities |-> m]
    /\ population_count' = population_count + 1
    /\ pos' = IF population_count + 1 >= genetic_settings.population_size THEN "generation" ELSE pos
    /\ UNCHANGED <<pvars, dvars, wvars, cvars, calvars, svars, genetic_settings, new_population,
                   new_count, generation, crossover_attempts>>

\* lines 1312-1388: fitness evaluation and elitism
BeginGeneration ==
    /\ pos = "generation"
    /\ generation < genetic_settings.num_generations
    /\ \E elite \in SUBSET population :
          /\ elite # {}
          /\ Cardinality(elite) <= EliteCount(genetic_settings.population_size)
          /\ new_population' = elite
    /\ new_count' = Min(EliteCount(genetic_settings.population_size), population_count)
    /\ crossover_attempts' = 0
    /\ pos' = "crossover"
    /\ UNCHANGED <<pvars, dvars, wvars, cvars, calvars, svars, genetic_settings, population,
                   population_count, generation, individual>>

\* lines 1391-1465: one attempt to produce a child
Crossover ==
    /\ pos = "crossover"
    /\ new_count < genetic_settings.population_size
    /\ crossover_attempts < genetic_settings.population_size * 2
    /\ crossover_attempts' = crossover_attempts + 1
    /\ \E parent1 \in population, parent2 \in population, coins \in CoinPatterns, m \in Mutations :
          LET child == CrossoverMaturities(parent1, parent2, coins)
              lo == genetic_settings.maturity_range[1]
              hi == genetic_settings.maturity_range[2]
          IN IF MutationRaises(child, m, lo, hi)
             THEN UNCHANGED <<new_population, new_count, individual>>
             ELSE LET mutated == MutateMaturities(child, m, lo, hi)
                  IN /\ new_population' = new_population \cup {mutated}
                     /\ new_count' = new_count + 1
                     /\ individual' = [origin |-> IF m.mutate THEN "mutation" ELSE "crossover", maturities |-> mutated]
    /\ UNCHANGED <<pvars, dvars, wvars, cvars, calvars, svars, genetic_settings, population,
                   population_count, generation, pos>>

\* lines 1468-1476: the attempts are used up, new individuals fill the population
Refill ==
    /\ pos = "crossover"
    /\ new_count < genetic_settings.population_size
    /\ crossover_attempts >= genetic_settings.population_size * 2
    /\ \E draws \in DrawPatterns :
          LET m == create_valid_individual(genetic_settings.maturity_range[1], genetic_settings.maturity_range[2], draws)
          IN /\ new_population' = new_population \cup {m}
             /\ individual' = [origin |-> "refill", maturities |-> m]
    /\ new_count' = new_count + 1
    /\ UNCHANGED <<pvars, dvars, wvars, cvars, calvars, svars, genetic_settings, population,
                   population_count, generation, crossover_attempts, pos>>

\* lines 1478-1489: the new population replaces the old one; the early stop may end the loop
EndGeneration ==
    /\ pos = "crossover"
    /\ new_count >= genetic_settings.population_size
    /\ population' = new_population
    /\ population_count' = new_count
    /\ generation' = generation + 1
    /\ \E early_stop \in BOOLEAN :
          pos' = IF early_stop \/ generation + 1 >= genetic_settings.num_generations THEN "evolved" ELSE "generation"
    /\ UNCHANGED <<pvars, dvars, wvars, cvars, calvars, svars, genetic_settings, new_population,
                   new_count, crossover_attempts, individual>>

NextG ==
    \/ CreateInitial
    \/ BeginGeneration
    \/ Crossover
    \/ Refill
    \/ EndGeneration

SpecG == InitG /\ [][NextG]_vars

ValidMaturities(m) ==
    /\ NumTranches(m) = 4
    /\ \A k \in DOMAIN m : k > 0 => m[k] - m[k - 1] >= 15

\* C20: every individual of the genetic search (initial, produced by
\* crossover and gap repair, mutated, or created to refill the population)
\* has 4 strictly increasing maturities with every consecutive gap at least 15 days.
C20_IndividualsSpaced ==
    /\ \A m \in population \cup new_population : ValidMaturities(m)
    /\ individual # NoIndividual => ValidMaturities(individual.maturities)

(***************************************************************************)
(* SpecP: one optimization request.  The router resets the progress        *)
(* tracker and runs the search in an executor thread; the search reports   *)
(* through OptimizationProgress.update, whose assignments are separate     *)
(* steps, while the poller calls get_info from the event loop thread.      *)
(* A message is identified by the line of the call that sets it.           *)
(***************************************************************************)
rest == <<dvars, wvars, cvars, pos, calvars, svars, gvars>>
tracker == <<current_step, total_steps, current_phase, status_message, progress>>
poller == <<poll_stage, snapshot>>

NegInf == 0 - Inf     \* -float('inf')

\* steps s for which int((s / 100) * 100) is s - 1 in floating point
FloatLowSteps == {29, 57, 58}

\* lines 63-66: min(99, int(current_step / total_steps * 100)), 100 for the
\* phases "Complete" and "Error"
ProgressOf(step, total, phase) ==
    IF phase \in {"Complete", "Error"} THEN 100
    ELSE Min(99, IF total = 100 /\ step \in FloatLowSteps THEN step - 1 ELSE (step * 100) \div total)

\* the first assignment an update call with these arguments makes
FirstStage(step, total, phase, message) ==
    IF step # None THEN "step"
    ELSE IF total # None THEN "total"
    ELSE IF phase # "none" THEN "phase"
    ELSE IF message # None THEN "message"
    ELSE "progress"

\* a call update(step, total, phase, message) about to make its first assignment
Call(step, total, phase, message) ==
    [stage |-> FirstStage(step, total, phase, message),
     step |-> step, total |-> total, phase |-> phase, message |-> message]

\* lines 636-726 of perform_optimization
ClassicPrologueCalls ==
    <<Call(0, 100, "Classic Optimization", 636), Call(5, None, "none", 651),
      Call(10, None, "none", 668), Call(15, None, "none", 682), Call(20, None, "none", 696),
      Call(None, None, "none", 722), Call(None, None, "Testing Configurations", None)>>

\* lines 1150-1226 of perform_genetic_optimization
GeneticPrologueCalls ==
    <<Call(0, 100, "Genetic Optimization", 1150), Call(5, None, "none", 1166),
      Call(10, None, "none", 1175), Call(15, None, "none", 1195),
      Call(20, None, "Initializing Population", 1224)>>

\* the loop variables at the start of a call of perform_optimization
ClassicStart(context, best_fitness) ==
    [context |-> context, k |-> 0, tranche_idx |-> 0, combo_idx |-> 0, strategy_idx |-> 0,
     current_iteration |-> 0, valid_found |-> FALSE, generation |-> 0,
     best_fitness |-> best_fitness, classic_outcome |-> NoOutcome]

GeneticStart ==
    [context |-> "genetic", k |-> 0, tranche_idx |-> 0, combo_idx |-> 0, strategy_idx |-> 0,
     current_iteration |-> 0, valid_found |-> FALSE, generation |-> 0,
     best_fitness |-> NegInf, classic_outcome |-> NoOutcome]

\* the requests: a classic search over one tranche count with 4 combinations
\* or over two tranche counts with 2 and 1 combinations, and a genetic search
\* whose classic fallback has a single combination
RunSettings ==
    {[method |-> "classic", combo_counts |-> <<4>>, total_iterations |-> 16, population_size |-> 0, num_generations |-> 0],
     [method |-> "classic", combo_counts |-> <<2, 1>>, total_iterations |-> 12, population_size |-> 0, num_generations |-> 0]}
    \cup {[method |-> "genetic", combo_counts |-> <<1>>, total_iterations |-> 4, population_size |-> ps, num_generations |-> 2] : ps \in {4, 10}}

InitP ==
    /\ IdleDate
    /\ IdleW
    /\ IdleC
    /\ IdleCal
    /\ IdleS
    /\ IdleG
    /\ pos = "idle"
    /\ current_step = 0
    /\ total_steps = 100
    /\ current_phase = "Initializing"
    /\ status_message = 40
    /\ progress = 0
    /\ run_settings \in RunSettings
    /\ site = "request"
    /\ search_state = NoState
    /\ pending = NoCall
    /\ search_outcome = NoOutcome
    /\ poll_stage = 0
    /\ snapshot = NoSnapshot

\* the search thread is between two update calls, and the poller is not
\* inside a get_info call that began before the last update call
CanProceed == pending = NoCall /\ poll_stage \in {0, 5}

Proceed(next_site, next_state, call) ==
    /\ CanProceed
    /\ site' = next_site
    /\ search_state' = next_state
    /\ pending' = call
    /\ UNCHANGED <<rest, tracker, poller, run_settings>>

\* routers/optimization.py lines 23-46 and 80-99: reset(), then the search
\* is handed to the executor
RouterReset ==
    /\ site = "request"
    /\ CanProceed
    /\ current_step' = 0
    /\ total_steps' = 100
    /\ current_phase' = "Initializing"
    /\ status_message' = 40
    /\ progress' = 0
    /\ site' = IF run_settings.method = "classic" THEN "classic_prologue" ELSE "genetic_prologue"
    /\ search_state' = IF run_settings.method = "classic" THEN ClassicStart("direct", NegInf) ELSE GeneticStart
    /\ UNCHANGED <<rest, poller, run_settings, pending, search_outcome>>

\* lines 53-54: if step is not None: self.current_step = step
StageAfterStep(call) == FirstStage(None, call.total, call.phase, call.message)
StageAfterTotal(call) == FirstStage(None, None, call.phase, call.message)
StageAfterPhase(call) == FirstStage(None, None, "none", call.message)

UpdateSetStep ==
    /\ pending.stage = "step"
    /\ current_step' = pending.step
    /\ pending' = [pending EXCEPT !.stage = StageAfterStep(pending)]
    /\ UNCHANGED <<rest, poller, run_settings, site, search_state, search_outcome,
                   total_steps, current_phase, status_message, progress>>

\* lines 55-56
UpdateSetTotal ==
    /\ pending.stage = "total"
    /\ total_steps' = pending.total
    /\ pending' = [pending EXCEPT !.stage = StageAfterTotal(pending)]
    /\ UNCHANGED <<rest, poller, run_settings, site, search_state, search_outcome,
                   current_step, current_phase, status_message, progress>>

\* lines 57-58
UpdateSetPhase ==
    /\ pending.stage = "phase"
    /\ current_phase' = pending.phase
    /\ pending' = [pending EXCEPT !.stage = StageAfterPhase(pending)]
    /\ UNCHANGED <<rest, poller, run_settings, site, search_state, search_outcome,
                   current_step, total_steps, status_message, progress>>

\* lines 59-60
UpdateSetMessage ==
    /\ pending.stage = "message"
    /\ status_message' = pending.message
    /\ pending' = [pending EXCEPT !.stage = "progress"]
    /\ UNCHANGED <<rest, poller, run_settings, site, search_state, search_outcome,
                   current_step, total_steps, current_phase, progress>>

\* lines 62-69: the percentage is computed last
UpdateSetProgress ==
    /\ pending.stage = "progress"
    /\ progress' = IF total_steps > 0 THEN ProgressOf(current_step, total_steps, current_phase)
                   ELSE progress
    /\ pending' = NoCall
    /\ UNCHANGED <<rest, poller, run_settings, site, search_state, search_outcome,
                   current_step, total_steps, current_phase, status_message>>

\* lines 636-726
ClassicPrologue ==
    /\ site = "classic_prologue"
    /\ Proceed(IF search_state.k + 1 < Len(ClassicPrologueCalls) THEN "classic_prologue" ELSE "tranche",
               [search_state EXCEPT !.k = IF @ + 1 < Len(ClassicPrologueCalls) THEN @ + 1 ELSE 0],
               ClassicPrologueCalls[search_state.k + 1])
    /\ UNCHANGED search_outcome

\* lines 729-735: the next tranche count, or the end of the loop
ReportTrancheCount ==
    /\ site = "tranche"
    /\ IF search_state.tranche_idx < Len(run_settings.combo_counts)
       THEN Proceed("combo", [search_state EXCEPT !.combo_idx = 0],
                    Call(20 + search_state.tranche_idx * 15, None, "none", 732))
       ELSE Proceed("finalize", search_state, NoCall)
    /\ UNCHANGED search_outcome

ComboCount == run_settings.combo_counts[search_state.tranche_idx + 1]

\* lines 755-766: int(tranche_progress_base + combo_idx * (10 / max(1, combo_count)))
ComboProgress ==
    20 + search_state.tranche_idx * 15 + (search_state.combo_idx * 10) \div Max(1, ComboCount)

ReportCombination ==
    /\ site = "combo"
    /\ IF search_state.combo_idx < ComboCount
       THEN Proceed("strategy", [search_state EXCEPT !.strategy_idx = 0],
                    Call(ComboProgress, None, "none", 763))
       ELSE Proceed("tranche", [search_state EXCEPT !.tranche_idx = @ + 1, !.combo_idx = 0], NoCall)
    /\ UNCHANGED search_outcome

\* lines 796-803: the next strategy of the combination
ReportStrategy ==
    /\ site = "strategy"
    /\ IF search_state.strategy_idx < 4
       THEN Proceed("candidate", search_state,
                    IF search_state.combo_idx % 5 = 0 /\ search_state.strategy_idx = 0
                    THEN Call(ComboProgress, None, "none", 800)
                    ELSE NoCall)
       ELSE Proceed("combo", [search_state EXCEPT !.combo_idx = @ + 1, !.strategy_idx = 0], NoCall)
    /\ UNCHANGED search_outcome

\* lines 805-1054: the candidate throws (continue), is evaluated without
\* becoming the best of its strategy, or becomes it (line 1045)
EvaluateCandidate ==
    /\ site = "candidate"
    /\ \/ Proceed("strategy", [search_state EXCEPT !.strategy_idx = @ + 1], NoCall)
       \/ Proceed("iteration", search_state, NoCall)
       \/ Proceed("iteration", [search_state EXCEPT !.valid_found = TRUE],
                  Call(None, None, "none", 1045))
    /\ UNCHANGED search_outcome

\* lines 1056-1065: min(80, 20 + int(current_iteration / total_iterations * 60))
IterationProgress(current_iteration) ==
    Min(80, 20 + (current_iteration * 60) \div run_settings.total_iterations)

CountIteration ==
    /\ site = "iteration"
    /\ Proceed("strategy",
               [search_state EXCEPT !.current_iteration = @ + 1, !.strategy_idx = @ + 1],
               IF (search_state.current_iteration + 1) % 10 = 0
               THEN Call(IterationProgress(search_state.current_iteration + 1), None, "none", 1062)
               ELSE NoCall)
    /\ UNCHANGED search_outcome

\* lines 1068-1075
FinalizeClassic ==
    /\ site = "finalize"
    /\ Proceed(IF search_state.valid_found THEN "select" ELSE "no_valid", search_state,
               Call(85, None, "Finalizing Results", 1068))
    /\ UNCHANGED search_outcome

\* where an exception that leaves perform_optimization goes: to the handler
\* of perform_genetic_optimization (line 1548) when the call is the one of
\* line 1508, else to the router
ClassicRaised(message) ==
    [returned |-> TRUE, raised |-> message, best_strategy |-> "none"]

ClassicReturned(best_strategy) ==
    [returned |-> TRUE, raised |-> "none", best_strategy |-> best_strategy]

\* lines 1078-1083
ClassicNoValid ==
    /\ site = "no_valid"
    /\ LET raised == ClassicRaised("No valid configuration found")
       IN  /\ Proceed(IF search_state.context = "fallback_try" THEN "recover" ELSE "router_error",
                      [search_state EXCEPT !.classic_outcome = raised],
                      Call(90, None, "none", 1079))
           /\ search_outcome' = IF search_state.context = "fallback_try" THEN search_outcome ELSE raised

\* lines 1086-1100
ClassicSelect ==
    /\ site = "select"
    /\ Proceed("classic_return", search_state, Call(95, None, "none", 1096))
    /\ UNCHANGED search_outcome

\* lines 1102-1135
ClassicReturn ==
    /\ site = "classic_return"
    /\ \E best \in StrategyNames :
          /\ Proceed("router_complete",
                     [search_state EXCEPT !.classic_outcome = ClassicReturned(best)],
                     Call(100, None, "none", 1114))
          /\ search_outcome' = ClassicReturned(best)

\* lines 1150-1226
GeneticPrologue ==
    /\ site = "genetic_prologue"
    /\ Proceed(IF search_state.k + 1 < Len(GeneticPrologueCalls) THEN "genetic_prologue" ELSE "population",
               [search_state EXCEPT !.k = IF @ + 1 < Len(GeneticPrologueCalls) THEN @ + 1 ELSE 0],
               GeneticPrologueCalls[search_state.k + 1])
    /\ UNCHANGED search_outcome

\* lines 1262-1272: one individual of the initial population
CreateIndividual ==
    /\ site = "population"
    /\ IF search_state.k < run_settings.population_size
       THEN Proceed("population", [search_state EXCEPT !.k = @ + 1],
                    IF search_state.k % 10 = 0
                    THEN Call(20 + (search_state.k * 5) \div run_settings.population_size, None, "none", 1269)
                    ELSE NoCall)
       ELSE Proceed("population_check", search_state, NoCall)
    /\ UNCHANGED search_outcome

\* line 1284: if len(population) < 5
PopulationTooSmall(count) == count < 5

\* lines 1284-1294: the ValueError of line 1289 is raised inside the try
\* block of the function and reaches its handler at line 1548
CheckPopulation ==
    /\ site = "population_check"
    /\ IF PopulationTooSmall(search_state.k)
       THEN Proceed("recover", search_state, Call(None, None, "Error", 1285))
       ELSE Proceed("generation", [search_state EXCEPT !.k = 0],
                    Call(25, None, "Evolution", 1292))
    /\ UNCHANGED search_outcome

\* lines 1312-1318: 25 + int(generation * (50 / num_generations))
ReportGeneration ==
    /\ site = "generation"
    /\ IF search_state.generation < run_settings.num_generations
       THEN Proceed("evaluate", search_state,
                    Call(25 + (search_state.generation * 50) \div run_settings.num_generations,
                         None, "none", 1315))
       ELSE Proceed("genetic_finalize", search_state, NoCall)
    /\ UNCHANGED search_outcome

\* the highest fitness of a generation: every evaluation threw (-inf), no
\* individual was valid (-1.0), or some individual was valid (its score)
GenerationFitness == {NegInf, -1, 1}

\* lines 1326-1374: the best so far is replaced by a higher fitness, with a
\* message (line 1363 for a valid individual, line 1367 otherwise)
EvaluatePopulation ==
    /\ site = "evaluate"
    /\ \E fitness \in GenerationFitness :
          IF fitness > search_state.best_fitness
          THEN Proceed("breed", [search_state EXCEPT !.best_fitness = fitness],
                       Call(None, None, "none", IF fitness > 0 THEN 1363 ELSE 1367))
          ELSE Proceed("breed", search_state, NoCall)
    /\ UNCHANGED search_outcome

\* lines 1376-1489: the next population is bred; an exception outside the
\* per-individual handler reaches line 1548; an excellent best ends the
\* evolution early (line 1486)
BreedPopulation ==
    /\ site = "breed"
    /\ \/ Proceed("generation", [search_state EXCEPT !.generation = @ + 1], NoCall)
       \/ Proceed("recover", search_state, NoCall)
       \/ /\ search_state.best_fitness > 0
          /\ Proceed("genetic_finalize", search_state, Call(None, None, "none", 1486))
    /\ UNCHANGED search_outcome

\* line 1497 with the fitness test dropped
GeneticFailedNoneOnly(best_fitness) == best_fitness = NegInf

\* line 1497: best_individual is None or best_fitness <= 0
GeneticFailed(best_fitness) == best_fitness = NegInf \/ best_fitness <= 0

\* lines 1492-1497
FinalizeGenetic ==
    /\ site = "genetic_finalize"
    /\ Proceed(IF GeneticFailed(search_state.best_fitness) THEN "genetic_failed" ELSE "genetic_result",
               search_state, Call(75, None, "Finalizing", 1492))
    /\ UNCHANGED search_outcome

\* lines 1498-1502
ReportGeneticFailure ==
    /\ site = "genetic_failed"
    /\ Proceed("fallback", search_state, Call(80, None, "Error", 1498))
    /\ UNCHANGED search_outcome

\* lines 1505-1508: return perform_optimization(...), inside the try block
FallBackToClassic ==
    /\ site = "fallback"
    /\ Proceed("classic_prologue", ClassicStart("fallback_try", search_state.best_fitness),
               Call(None, None, "none", 1505))
    /\ UNCHANGED search_outcome

\* lines 1548-1559: the handler reports and calls perform_optimization
RecoverWithClassic ==
    /\ site = "recover"
    /\ Proceed("classic_prologue", ClassicStart("fallback_handler", search_state.best_fitness),
               Call(80, None, "Error Recovery", 1555))
    /\ UNCHANGED search_outcome

\* lines 1519-1520
ReportGeneticResult ==
    /\ site = "genetic_result"
    /\ Proceed("genetic_return", search_state, Call(90, None, "none", 1519))
    /\ UNCHANGED search_outcome

\* lines 1525-1547
GeneticReturn ==
    /\ site = "genetic_return"
    /\ Proceed("router_complete", search_state, Call(100, None, "Complete", 1543))
    /\ search_outcome' = ClassicReturned("genetic")

\* routers/optimization.py lines 52-58 and 104-110, on the event loop thread
RouterComplete ==
    /\ site = "router_complete"
    /\ CanProceed
    /\ current_step' = 100
    /\ current_phase' = "Complete"
    /\ status_message' = 54
    /\ progress' = ProgressOf(100, total_steps, "Complete")
    /\ site' = "ended"
    /\ UNCHANGED <<rest, poller, run_settings, search_state, pending, search_outcome, total_steps>>

\* routers/optimization.py lines 60-72 and 112-124
RouterError ==
    /\ site = "router_error"
    /\ CanProceed
    /\ current_step' = 100
    /\ current_phase' = "Error"
    /\ status_message' = 66
    /\ progress' = ProgressOf(100, total_steps, "Error")
    /\ site' = "ended"
    /\ UNCHANGED <<rest, poller, run_settings, search_state, pending, search_outcome, total_steps>>

\* lines 77-91: get_info reads the fields one after the other
GetInfoRead ==
    /\ site \notin {"request", "ended"}
    /\ poll_stage < 5
    /\ snapshot' = CASE poll_stage = 0 -> [snapshot EXCEPT !.progress = progress]
                     [] poll_stage = 1 -> [snapshot EXCEPT !.phase = current_phase]
                     [] poll_stage = 2 -> [snapshot EXCEPT !.message = status_message]
                     [] poll_stage = 3 -> [snapshot EXCEPT !.step = current_step]
                     [] poll_stage = 4 -> [snapshot EXCEPT !.total_steps = total_steps]
    /\ poll_stage' = poll_stage + 1
    /\ UNCHANGED <<rest, tracker, run_settings, site, search_state, pending, search_outcome>>

\* routers/optimization.py lines 165-171: the snapshot is sent to the client
GetInfoReturn ==
    /\ poll_stage = 5
    /\ poll_stage' = 0
    /\ snapshot' = NoSnapshot
    /\ UNCHANGED <<rest, tracker, run_settings, site, search_state, pending, search_outcome>>

NextP ==
    \/ RouterReset
    \/ UpdateSetStep
    \/ UpdateSetTotal
    \/ UpdateSetPhase
    \/ UpdateSetMessage
    \/ UpdateSetProgress
    \/ ClassicPrologue
    \/ ReportTrancheCount
    \/ ReportCombination
    \/ ReportStrategy
    \/ EvaluateCandidate
    \/ CountIteration
    \/ FinalizeClassic
    \/ ClassicNoValid
    \/ ClassicSelect
    \/ ClassicReturn
    \/ GeneticPrologue
    \/ CreateIndividual
    \/ CheckPopulation
    \/ ReportGeneration
    \/ EvaluatePopulation
    \/ BreedPopulation
    \/ FinalizeGenetic
    \/ ReportGeneticFailure
    \/ FallBackToClassic
    \/ RecoverWithClassic
    \/ ReportGeneticResult
    \/ GeneticReturn
    \/ RouterComplete
    \/ RouterError
    \/ GetInfoRead
    \/ GetInfoReturn

SpecP == InitP /\ [][NextP]_vars

(***************************************************************************)
(* Properties of a request (SpecP)                                         *)
(***************************************************************************)
SearchRunning == site \notin {"request", "router_complete", "router_error", "ended"}

\* C22: a genetic request ends with a result labelled 'genetic' only when
\* some individual reached a fitness above 0; when none did, or when an
\* exception left the evolution, its outcome is the outcome (result or
\* error) of the call of perform_optimization it fell back to.
C22_GeneticLabelNeedsPositiveFitness ==
    (site = "ended" /\ run_settings.method = "genetic") =>
        /\ search_outcome.best_strategy = "genetic" =>
              (search_state.best_fitness > 0 /\ search_state.context = "genetic")
        /\ (search_state.best_fitness <= 0 \/ search_state.context # "genetic") =>
              /\ search_state.context \in {"fallback_try", "fallback_handler"}
              /\ search_state.classic_outcome # NoOutcome
              /\ search_outcome = search_state.classic_outcome
              /\ search_outcome.best_strategy # "genetic"

\* no individual was valid and the classic fallback returned a result
C22_Witness ==
    /\ site = "ended"
    /\ run_settings.method = "genetic"
    /\ run_settings.population_size >= 5
    /\ search_state.best_fitness = -1
    /\ search_state.context = "fallback_try"
    /\ search_outcome.best_strategy \in StrategyNames

\* a valid individual was found and the result is labelled 'genetic'
C22_WitnessGenetic ==
    /\ site = "ended"
    /\ search_outcome.best_strategy = "genetic"
    /\ search_state.best_fitness > 0

\* C23: a genetic request whose initial population has fewer than 5
\* individuals ends with an error raised to the caller, never with a result.
C23_SmallPopulationRaises ==
    (site = "ended" /\ run_settings.method = "genetic" /\ PopulationTooSmall(run_settings.population_size)) =>
        search_outcome.raised # "none"

\* C24: while the search of a request is executing the percentage is an
\* integer in [0, 99]; once the request has completed or failed it is 100.
C24_HundredOnlyAtTheEnd ==
    /\ SearchRunning => progress \in 0..99
    /\ site = "ended" => progress = 100

\* C25: between the reset that starts a request and its end the percentage
\* never decreases.
C25_ProgressNeverDecreases ==
    [][site # "request" => progress' >= progress]_vars

\* C26: the fields a get_info call returns agree with each other: the
\* returned percentage is the one that the returned step, total_steps and
\* phase give.
C26_SnapshotConsistent ==
    (poll_stage = 5 /\ snapshot.total_steps > 0) =>
        snapshot.progress = ProgressOf(snapshot.step, snapshot.total_steps, snapshot.phase)

====
